---- MODULE Spec2Model ----
(***************************************************************************)
(* Message-bus coordination and experiment-lifecycle control plane of the  *)
(* GTM agent fabric: the Alert Gate (services/redis_agent/alerts.py), the  *)
(* experiment lifecycle (services/executor/runner.py and                   *)
(* services/orchestrator/dispatcher.py), the Monitor's threshold loop      *)
(* (services/redis_agent/monitor.py) and the Router fan-out                *)
(* (services/discord/core/router.py over services/discord/core/bus.py).    *)
(*                                                                         *)
(* Each service runs one cooperatively scheduled event loop: the code      *)
(* between two awaits is one atomic step, every await is a point where     *)
(* another task (or another process, through the store) may run.           *)
(***************************************************************************)
EXTENDS Integers, Sequences, FiniteSets, TLC

(***************************************************************************)
(* Bounds                                                                  *)
(***************************************************************************)
\* last instant of the wall clock that the model explores
MaxTime == 6
\* number of send_alert invocations that may be suspended in the publish at once
MaxInFlight == 2
\* how many deliveries of one envelope, or calls of one handler for one
\* message, the logs tell apart
MaxCopies == 2
\* number of execute_experiment invocations that may be running at once
MaxRuns == 2
\* number of messages published on the from-orchestrator channel
MaxMsgs == 2
\* number of messages published on the channels of the Bus
MaxBusMsgs == 2
\* number of callbacks one channel of the Bus holds
MaxCallbacks == 2
\* how many times the listener sleeps after a ConnectionError
MaxSleeps == 2
\* number of metrics ingested for the experiment
MaxMetrics == 2
MaxLearnings == 1
MaxRequests == 2

(***************************************************************************)
(* Alert Gate: services/redis_agent/alerts.py                              *)
(***************************************************************************)
\* Settings.alert_cooldown_seconds; one time unit of the model is 100 s
alert_cooldown_seconds == 3

\* time.time() when the service starts: an epoch time, so it is at least one
\* cooldown away from the default last_sent of 0
StartTime == alert_cooldown_seconds

\* experiment ids are free text and may contain the separator of the key
ExpIds == {"e1", "e1:error"}

\* the alert kinds the Monitor emits
AlertTypes == {"error", "success_threshold", "failure_threshold"}

\* the kinds that callers of send_alert other than the threshold loop raise
CallerTypes == {"error", "success_threshold"}

\* an alert as send_alert stamps it: alert["timestamp"] is the clock of the
\* step that passed the cooldown check
Envelopes == [id : ExpIds, type : AlertTypes, timestamp : StartTime..MaxTime]

NoCall == [id |-> "", type |-> "", at |-> 0, result |-> "none"]

VARIABLES
    now,            \* the wall clock read by time.time()
    recent_alerts,  \* alerts.recent_alerts: alert_key -> time of last send
    inflight,       \* send_alert invocations suspended in redis.publish: envelope -> how many
    published,      \* envelopes on the orchestrator channel: envelope -> copies
    lastCall        \* the latest send_alert invocation: its alert, its time, what the check decided

VARIABLES
    expState,       \* experiments:{id} hash, field "state" ("" when the field is blank)
    expStatus,      \* experiments:{id} hash, field "status" ("none" when the field is absent)
    run,            \* per Executor task: the execute_experiment invocation it is in
    runRecords      \* experiment_runs:{run_id} hashes: run_id -> [status, error_type]

VARIABLES
    loopPc,         \* where check_thresholds_loop is
    toScan,         \* get_active_experiments: keys of the scan not yet read
    experiments,    \* get_active_experiments: the list being built, then iterated
    checking        \* check_experiment_thresholds: the experiment, and the envelope it awaits

gateVars == <<recent_alerts, inflight, published, lastCall>>
lifeVars == <<expState, expStatus, run, runRecords>>
loopVars == <<loopPc, toScan, experiments, checking>>

VARIABLES
    busConnected,   \* RedisBus.is_connected: _redis is set and _running
    callbacks,      \* RedisBus._callbacks: whether the channel has an entry, and its list
    brokerSubscribed, \* the pubsub connection is subscribed to the channel at the broker
    listenerRunning,  \* RedisBus._listener_task is alive
    inbox,          \* messages the pubsub connection holds for the listener
    handlers,       \* MessageRouter._handlers
    subscribed,     \* MessageRouter._subscribed
    startPc,        \* MessageRouter.start: "idle", or "subscribing" while it holds the lock
    dispatch,       \* RedisBus._dispatch: the message, the next callback, the gathered tasks
    sent,           \* how many messages were published on the from-orchestrator channel
    invoked,        \* per message and handler: how many times the handler was called
    raisedOn,       \* per message: the handlers that raised
    doneMsgs,       \* the messages whose dispatch is over
    expected,       \* per message: the handlers registered with a started router at its publish
    regCalls,       \* the handlers register_handler was called with
    redundantCalls  \* a start or register_handler call repeated an earlier one

routerVars == <<busConnected, callbacks, brokerSubscribed, listenerRunning, inbox,
                handlers, subscribed, startPc, dispatch, sent, invoked, raisedOn,
                doneMsgs, expected, regCalls, redundantCalls>>

VARIABLES
    busRedis,       \* RedisBus._redis is not None
    busPubsub,      \* RedisBus._pubsub is not None
    busRunning,     \* RedisBus._running
    busCallbacks,   \* RedisBus._callbacks: per channel, whether it has an entry, and its list
    busListener,    \* RedisBus._listener_task and where _listen / _dispatch are
    cancelRequested,  \* _listener_task.cancel() was called and is not yet delivered
    disconnectPc,   \* where RedisBus.disconnect is
    pendingSubscribe, \* the subscribe call suspended in pubsub.subscribe
    brokerUp,       \* the broker can be reached
    linkUp,         \* the pubsub connection to the broker is established
    brokerSubs,     \* the channels the broker sends to the pubsub connection
    pubsubChannels, \* the channels the pubsub object holds as subscribed
    busInbox,       \* messages the pubsub connection holds for the listener
    busSent,        \* how many messages were published on the Bus's channels
    chanOf,         \* per message: its channel
    gotMsgs,        \* the messages get_message returned
    regAt,          \* per message: the callbacks of its channel when it was received
    begun,          \* per message: the callbacks that were called with it
    ended,          \* per message: the callbacks that returned or raised
    raisedIn,       \* per message: the callbacks that raised
    cancelledIn,    \* per message: the callbacks cut short by a cancellation
    dispatched,     \* the messages whose _dispatch ran to its end
    lastBusOp,      \* the latest call of a Bus or Router operation and what it raised
    sleeps          \* how many times the listener slept after a ConnectionError

busFlags == <<busRedis, busPubsub, busRunning>>
brokerVars == <<brokerUp, linkUp, brokerSubs, pubsubChannels>>
busLog == <<gotMsgs, regAt, begun, ended, raisedIn, cancelledIn, dispatched>>
busVars == <<busFlags, busCallbacks, busListener, cancelRequested, disconnectPc,
             pendingSubscribe, brokerVars, busInbox, busSent, chanOf,
             busLog, lastBusOp, sleeps>>

VARIABLES
    agg,            \* the hash metrics_aggregated:{id} of the experiment
    ingest,         \* where process_metric / update_aggregations are, and their metric
    history,        \* the metrics ingested so far, in order
    snapshot        \* what the latest get_current_metrics call returned

VARIABLES
    criterion,      \* evaluate_criterion: the criterion
    critMetrics,    \* evaluate_criterion: the metrics
    critResult      \* evaluate_criterion: what it returned

VARIABLES
    chk,            \* where check_experiment_thresholds is
    chkExp,         \* check_experiment_thresholds: exp
    current_metrics \* check_experiment_thresholds: current_metrics

VARIABLES
    rawLists,       \* per experiment_id value: the list metrics:{id} of raw envelopes
    proc,           \* where process_metric is, its metric, and the alert send_alert builds
    wire,           \* the alerts send_alert published, each with its channel
    procLog         \* per process_metric call: the metric and what became of its alert

VARIABLES
    response,       \* parse_decision: the model response it is given
    parsed,         \* parse_decision: the Decision it returned, or what it raised
    think,          \* where process_with_thinking is, and what it returned
    expHashes,      \* the hashes experiments:{id} of the store
    outbox,         \* what the Dispatcher published, each message with its channel
    files,          \* worklist.md and learnings.md
    execLog         \* per execute_decision call: the Decision and how the call ended

VARIABLES
    lost,           \* the alerts whose redis.publish in send_alert raised
    classified,     \* classify: the message, how the model call ended, the Classification
    roundtable,     \* initiate_roundtable: the Decision, how the subprocess ended, the result
    builder,        \* the Builder listener: where it is and the request it handles
    builderQueue,   \* the tool_prd requests received and not yet handled
    builderOut,     \* what the Builder listener published, in order
    emitted         \* the envelopes the core services published, with their fields

lateVars == <<lost, classified, roundtable, builder, builderQueue, builderOut, emitted>>

procVars == <<rawLists, proc, wire, procLog>>
parseVars == <<response, parsed>>
dispVars == <<expHashes, outbox, files, execLog>>
orchVars == <<parseVars, think, dispVars>>
restVars == <<procVars, orchVars, lateVars>>

aggVars == <<agg, ingest, history, snapshot>>
critVars == <<criterion, critMetrics, critResult>>
chkVars == <<chk, chkExp, current_metrics>>
metricVars == <<aggVars, critVars, chkVars>>

nonMetricVars == <<now, gateVars, lifeVars, loopVars, routerVars, busVars, restVars>>

nonBusVars == <<now, gateVars, lifeVars, loopVars, routerVars, metricVars, restVars>>

vars == <<now, recent_alerts, inflight, published, lastCall,
          expState, expStatus, run, runRecords,
          loopPc, toScan, experiments, checking,
          busConnected, callbacks, brokerSubscribed, listenerRunning, inbox,
          handlers, subscribed, startPc, dispatch, sent, invoked, raisedOn,
          doneMsgs, expected, regCalls, redundantCalls, busVars, metricVars, restVars>>

\* the number of invocations suspended in the publish
InFlightCount(bag) ==
    Cardinality({p \in Envelopes \X (1..MaxInFlight) : p[2] <= bag[p[1]]})

\* alert_key = f"{exp_id}:{alert_type}"
AlertKeyNoType(exp_id, alert_type) == exp_id
AlertKey(exp_id, alert_type) == exp_id \o ":" \o alert_type

\* recent_alerts.get(alert_key, 0)
LastSent(ra, alert_key) == IF alert_key \in DOMAIN ra THEN ra[alert_key] ELSE 0

\* elapsed < alert_cooldown_seconds
InCooldownShort(ra, alert_key, t) == t - LastSent(ra, alert_key) < alert_cooldown_seconds - 1
InCooldown(ra, alert_key, t) == t - LastSent(ra, alert_key) < alert_cooldown_seconds

\* recent_alerts[alert_key] = time.time()
SetLastSent(ra, alert_key, t) ==
    [k \in DOMAIN ra \cup {alert_key} |-> IF k = alert_key THEN t ELSE ra[k]]

\* the map after the cooldown check let the alert through, before the publish
NotMarkedBeforePublish(ra, alert_key, t) == ra
MarkedBeforePublish(ra, alert_key, t) == SetLastSent(ra, alert_key, t)

\* the map after the cooldown check suppressed the alert: the early return
\* leaves it alone
TouchedOnSuppress(ra, alert_key, t) == SetLastSent(ra, alert_key, t)
KeptOnSuppress(ra, alert_key, t) == ra

GateInit ==
    /\ now = StartTime
    /\ recent_alerts = <<>>
    /\ inflight = [e \in Envelopes |-> 0]
    /\ published = [e \in Envelopes |-> 0]
    /\ lastCall = NoCall

\* wall-clock time passes
Tick ==
    /\ now < MaxTime
    /\ now' = now + 1
    /\ UNCHANGED <<gateVars, lifeVars, loopVars, routerVars, busVars, metricVars, restVars>>

\* send_alert up to its first await: build the key, check the cooldown, and
\* either return False or write the cooldown entry, stamp the alert and
\* suspend in redis.publish
GateStep(exp_id, alert_type) ==
    LET alert_key == AlertKey(exp_id, alert_type)
        env == [id |-> exp_id, type |-> alert_type, timestamp |-> now]
    IN
    IF InCooldown(recent_alerts, alert_key, now)
    THEN /\ recent_alerts' = KeptOnSuppress(recent_alerts, alert_key, now)
         /\ lastCall' = [id |-> exp_id, type |-> alert_type, at |-> now,
                         result |-> "suppressed"]
         /\ UNCHANGED inflight
    ELSE /\ recent_alerts' = MarkedBeforePublish(recent_alerts, alert_key, now)
         /\ lastCall' = [id |-> exp_id, type |-> alert_type, at |-> now,
                         result |-> "passed"]
         /\ inflight' = [inflight EXCEPT ![env] = @ + 1]

\* a task of the service calls send_alert
SendAlert(exp_id, alert_type) ==
    /\ InFlightCount(inflight) < MaxInFlight
    /\ GateStep(exp_id, alert_type)
    /\ UNCHANGED <<now, published, lifeVars, loopVars, routerVars, busVars, metricVars, restVars>>

\* redis.publish completes: the envelope, stamped before the await, is on the
\* orchestrator channel and send_alert returns True
PublishDone(env) ==
    /\ inflight[env] > 0
    /\ published[env] < MaxCopies
    /\ inflight' = [inflight EXCEPT ![env] = @ - 1]
    /\ published' = [published EXCEPT ![env] = @ + 1]
    /\ UNCHANGED <<now, recent_alerts, lastCall, lifeVars, loopVars, routerVars, busVars, metricVars, restVars>>

GateNext ==
    \/ Tick
    \/ \E exp_id \in ExpIds, alert_type \in CallerTypes : SendAlert(exp_id, alert_type)
    \/ \E env \in Envelopes : PublishDone(env)

(***************************************************************************)
(* Experiment lifecycle: services/executor/runner.py,                      *)
(* services/orchestrator/dispatcher.py                                     *)
(***************************************************************************)
Runs == 1..MaxRuns

\* the experiments whose hashes are in the store
Experiments == {"e1"}

\* what loading and running the tool ends in: a result, or one of the errors
\* execute_experiment tells apart
Outcomes == {"ok", "ToolNotFoundError", "ToolTimeoutError",
             "ToolRetryExhaustedError", "ToolError", "Exception"}

LifecycleStates == {"", "active", "running", "run", "failed", "archived"}

\* run_id = f"{exp_id}:{int(time.time())}"
RunId(exp_id, t) == exp_id \o ":" \o ToString(t)

RunIds == {RunId(e, t) : e \in Experiments, t \in StartTime..MaxTime}

NoRun == [pc |-> "idle", exp |-> "", run_id |-> "", archivedAtStart |-> FALSE]

\* the experiment hashes exist: the submission left state "active" or blank,
\* and may have written a status field
LifeInit ==
    /\ expState \in [Experiments -> {"active", ""}]
    /\ expStatus \in [Experiments -> {"none", "active"}]
    /\ run = [r \in Runs |-> NoRun]
    /\ runRecords = [id \in RunIds |-> "none"]

\* execute_experiment, lines 81-88: name the run and set the state to running
ExecStart(r, exp_id) ==
    /\ run[r].pc = "idle"
    /\ run' = [run EXCEPT ![r] = [pc |-> "started", exp |-> exp_id,
                  run_id |-> RunId(exp_id, now),
                  archivedAtStart |-> (expState[exp_id] = "archived")]]
    /\ expState' = [expState EXCEPT ![exp_id] = "running"]
    /\ UNCHANGED <<now, gateVars, expStatus, runRecords, loopVars, routerVars, busVars, metricVars, restVars>>

\* the status that save_run_result writes to experiment_runs:{run_id}: the
\* success mapping of lines 150-155, the failure_data of lines 233-238
SavedStatus(outcome) == IF outcome = "ok" THEN "completed" ELSE "failed"

\* lines 90-156 and the except clauses with _handle_failure, lines 233-252:
\* the tool is loaded and run, it returns or an error is raised, and the run
\* record is saved
ToolDone(r, outcome) ==
    /\ run[r].pc = "started"
    /\ runRecords' = [runRecords EXCEPT ![run[r].run_id] = SavedStatus(outcome)]
    /\ run' = [run EXCEPT ![r].pc = IF outcome = "ok" THEN "completed" ELSE "failed"]
    /\ UNCHANGED <<now, gateVars, expState, expStatus, loopVars, routerVars, busVars, metricVars, restVars>>

\* the state the Executor writes when the run is over
FinalState(pc) == IF pc = "completed" THEN "run" ELSE "failed"

\* line 159 on success, _handle_failure line 255 on an error
SetState(r) ==
    /\ run[r].pc \in {"completed", "failed"}
    /\ expState' = [expState EXCEPT ![run[r].exp] = FinalState(run[r].pc)]
    /\ run' = [run EXCEPT ![r].pc = IF run[r].pc = "completed" THEN "notify"
                                    ELSE "notify_failure"]
    /\ UNCHANGED <<now, gateVars, expStatus, runRecords, loopVars, routerVars, busVars, metricVars, restVars>>

\* publish_result and return
Notify(r) ==
    /\ run[r].pc \in {"notify", "notify_failure"}
    /\ run' = [run EXCEPT ![r] = NoRun]
    /\ UNCHANGED <<now, gateVars, expState, expStatus, runRecords, loopVars, routerVars, busVars, metricVars, restVars>>

\* Dispatcher.kill_experiment: one hset of the archive mapping
KillExperiment(exp_id) ==
    /\ exp_id # ""
    /\ expState' = [expState EXCEPT ![exp_id] = "archived"]
    /\ UNCHANGED <<now, gateVars, expStatus, run, runRecords, loopVars, routerVars, busVars, metricVars, restVars>>

\* line 159 or the publish of lines 162-172 raises after the record was
\* saved as completed: 'except Exception' calls _handle_failure, whose
\* save_run_result writes the failure mapping to the same run_id
AfterSaveRaises(r) ==
    /\ run[r].pc \in {"completed", "notify"}
    /\ runRecords' = [runRecords EXCEPT ![run[r].run_id] = "failed"]
    /\ run' = [run EXCEPT ![r].pc = "failed"]
    /\ UNCHANGED <<now, gateVars, expState, expStatus, loopVars, routerVars, busVars, metricVars, restVars>>

\* a call inside _handle_failure raises (line 255 or the publish): nothing
\* catches it and execute_experiment ends with the exception
HandleFailureRaises(r) ==
    /\ run[r].pc \in {"failed", "notify_failure"}
    /\ run' = [run EXCEPT ![r] = NoRun]
    /\ UNCHANGED <<now, gateVars, expState, expStatus, runRecords, loopVars, routerVars, busVars, metricVars, restVars>>

\* the Executor with a store and a broker whose calls can fail
ExecutorNext ==
    \/ Tick
    \/ \E r \in Runs, exp_id \in Experiments : ExecStart(r, exp_id)
    \/ \E r \in Runs, outcome \in Outcomes : ToolDone(r, outcome)
    \/ \E r \in Runs : SetState(r)
    \/ \E r \in Runs : Notify(r)
    \/ \E r \in Runs : AfterSaveRaises(r)
    \/ \E r \in Runs : HandleFailureRaises(r)

LifeNext ==
    \/ Tick
    \/ \E r \in Runs, exp_id \in Experiments : ExecStart(r, exp_id)
    \/ \E r \in Runs, outcome \in Outcomes : ToolDone(r, outcome)
    \/ \E r \in Runs : SetState(r)
    \/ \E r \in Runs : Notify(r)
    \/ \E exp_id \in Experiments : KillExperiment(exp_id)

(***************************************************************************)
(* Threshold loop of the Monitor: services/redis_agent/monitor.py          *)
(***************************************************************************)
NoEnvelope == [id |-> "", type |-> "", timestamp |-> 0]

NoExperiment == [id |-> "", state |-> "", status |-> "none"]

LoopInit ==
    /\ loopPc = "sleep"
    /\ toScan = {}
    /\ experiments = {}
    /\ checking = [exp |-> NoExperiment, env |-> NoEnvelope]

\* status = exp.get("status", "active")
StatusOf(exp) == IF exp.status = "none" THEN "active" ELSE exp.status

\* if status in ("active", "running", "")
MonitorIncludes(exp) == StatusOf(exp) \in {"active", "running", ""}

\* check_thresholds_loop wakes up; get_active_experiments scans experiments:*
ScanStart ==
    /\ loopPc = "sleep"
    /\ toScan' = Experiments
    /\ experiments' = {}
    /\ loopPc' = "scan"
    /\ UNCHANGED <<now, gateVars, lifeVars, routerVars, busVars, metricVars, restVars, checking>>

\* get_active_experiments, lines 181-213: hgetall of one key, decode, filter
ScanRead(exp_id) ==
    /\ loopPc = "scan"
    /\ exp_id \in toScan
    /\ LET exp == [id |-> exp_id, state |-> expState[exp_id], status |-> expStatus[exp_id]] IN
       experiments' = IF MonitorIncludes(exp) THEN experiments \cup {exp} ELSE experiments
    /\ toScan' = toScan \ {exp_id}
    /\ loopPc' = IF toScan' = {} THEN "check" ELSE "scan"
    /\ UNCHANGED <<now, gateVars, lifeVars, routerVars, busVars, metricVars, restVars, checking>>

\* check_thresholds_loop, lines 252-253: the next experiment of the list;
\* check_experiment_thresholds reads its metrics
CheckBegin(exp) ==
    /\ loopPc = "check"
    /\ exp \in experiments
    /\ experiments' = experiments \ {exp}
    /\ checking' = [exp |-> exp, env |-> NoEnvelope]
    /\ loopPc' = "success"
    /\ UNCHANGED <<now, gateVars, lifeVars, routerVars, busVars, metricVars, restVars, toScan>>

\* check_experiment_thresholds, lines 276-287 (success) and 294-306
\* (failure): when a criterion of the kind holds for the metrics, send_alert
ThresholdAlert(pc, alert_type, next, hit) ==
    /\ loopPc = pc
    /\ IF hit
       THEN /\ GateStep(checking.exp.id, alert_type)
            /\ IF InCooldown(recent_alerts, AlertKey(checking.exp.id, alert_type), now)
               THEN /\ loopPc' = next
                    /\ UNCHANGED checking
               ELSE /\ loopPc' = "await_" \o pc
                    /\ checking' = [checking EXCEPT !.env =
                          [id |-> checking.exp.id, type |-> alert_type, timestamp |-> now]]
       ELSE /\ loopPc' = next
            /\ UNCHANGED <<gateVars, checking>>
    /\ UNCHANGED <<now, published, lifeVars, routerVars, busVars, metricVars, restVars, toScan, experiments>>

\* send_alert returns to check_experiment_thresholds once the publish is done
ThresholdResume(pc, next) ==
    /\ loopPc = "await_" \o pc
    /\ inflight[checking.env] = 0
    /\ loopPc' = next
    /\ UNCHANGED <<now, gateVars, lifeVars, routerVars, busVars, metricVars, restVars, toScan, experiments, checking>>

\* the list is exhausted: asyncio.sleep(threshold_check_interval_seconds)
LoopSleep ==
    /\ loopPc = "check"
    /\ experiments = {}
    /\ loopPc' = "sleep"
    /\ UNCHANGED <<now, gateVars, lifeVars, routerVars, busVars, metricVars, restVars, toScan, experiments, checking>>

LoopNext ==
    \/ ScanStart
    \/ \E exp_id \in Experiments : ScanRead(exp_id)
    \/ \E exp \in experiments : CheckBegin(exp)
    \/ \E hit \in BOOLEAN : ThresholdAlert("success", "success_threshold", "failure", hit)
    \/ \E hit \in BOOLEAN : ThresholdAlert("failure", "failure_threshold", "check", hit)
    \/ ThresholdResume("success", "failure")
    \/ ThresholdResume("failure", "check")
    \/ LoopSleep

MonitorNext ==
    \/ Tick
    \/ LoopNext
    \/ \E env \in Envelopes : PublishDone(env)
    \/ \E exp_id \in Experiments : KillExperiment(exp_id)

(***************************************************************************)
(* Router over the Bus: services/discord/core/router.py,                   *)
(* services/discord/core/bus.py                                            *)
(***************************************************************************)
\* the handlers the adapters register: DiscordAdapter._handle_agent_message
\* and WebAdapter._handle_redis_message
Handlers == {"discord", "web"}

Msgs == 1..MaxMsgs

NoDispatch == [msg |-> 0, next |-> 0, tasks |-> <<>>, pending |-> {}]

RouterInit ==
    /\ busConnected = FALSE
    /\ callbacks = [present |-> FALSE, list |-> <<>>]
    /\ brokerSubscribed = FALSE
    /\ listenerRunning = FALSE
    /\ inbox = <<>>
    /\ handlers = <<>>
    /\ subscribed = FALSE
    /\ startPc = "idle"
    /\ dispatch = NoDispatch
    /\ sent = 0
    /\ invoked = [m \in Msgs |-> [h \in Handlers |-> 0]]
    /\ raisedOn = [m \in Msgs |-> {}]
    /\ doneMsgs = {}
    /\ expected = [m \in Msgs |-> {}]
    /\ regCalls = {}
    /\ redundantCalls = FALSE

\* RedisBus.connect succeeds
BusConnect ==
    /\ ~busConnected
    /\ busConnected' = TRUE
    /\ UNCHANGED <<now, gateVars, lifeVars, loopVars, busVars, metricVars, restVars, callbacks, brokerSubscribed,
                   listenerRunning, inbox, handlers, subscribed, startPc, dispatch,
                   sent, invoked, raisedOn, doneMsgs, expected, regCalls, redundantCalls>>

InList(list, h) == \E i \in 1..Len(list) : list[i] = h

\* register_handler: if handler not in self._handlers: append
RegisterAppendAlways(list, h) == Append(list, h)
RegisterAppend(list, h) == IF InList(list, h) THEN list ELSE Append(list, h)

RegisterHandler(h) ==
    /\ handlers' = RegisterAppend(handlers, h)
    /\ regCalls' = regCalls \cup {h}
    /\ redundantCalls' = (redundantCalls \/ h \in regCalls)
    /\ UNCHANGED <<now, gateVars, lifeVars, loopVars, busVars, metricVars, restVars, busConnected, callbacks,
                   brokerSubscribed, listenerRunning, inbox, subscribed, startPc,
                   dispatch, sent, invoked, raisedOn, doneMsgs, expected>>

\* MessageRouter.start takes the lock: it returns when already subscribed or
\* not connected; otherwise RedisBus.subscribe makes the channel's entry and
\* awaits the broker's subscribe (when the entry exists it appends at once)
StartBegin ==
    /\ startPc = "idle"
    /\ IF subscribed
       THEN /\ redundantCalls' = TRUE
            /\ UNCHANGED <<callbacks, startPc, subscribed, listenerRunning>>
       ELSE IF ~busConnected
       THEN UNCHANGED <<callbacks, startPc, subscribed, listenerRunning, redundantCalls>>
       ELSE IF ~callbacks.present
       THEN /\ callbacks' = [present |-> TRUE, list |-> <<>>]
            /\ startPc' = "subscribing"
            /\ UNCHANGED <<subscribed, listenerRunning, redundantCalls>>
       ELSE /\ callbacks' = [callbacks EXCEPT !.list = Append(@, "router")]
            /\ listenerRunning' = TRUE
            /\ subscribed' = TRUE
            /\ UNCHANGED <<startPc, redundantCalls>>
    /\ UNCHANGED <<now, gateVars, lifeVars, loopVars, busVars, metricVars, restVars, busConnected, brokerSubscribed,
                   inbox, handlers, dispatch, sent, invoked, raisedOn, doneMsgs,
                   expected, regCalls>>

\* the broker's subscribe returns: RedisBus.subscribe appends the callback
\* and starts the listener, start sets _subscribed and releases the lock
StartSubscribed ==
    /\ startPc = "subscribing"
    /\ brokerSubscribed' = TRUE
    /\ callbacks' = [callbacks EXCEPT !.list = Append(@, "router")]
    /\ listenerRunning' = TRUE
    /\ subscribed' = TRUE
    /\ startPc' = "idle"
    /\ UNCHANGED <<now, gateVars, lifeVars, loopVars, busVars, metricVars, restVars, busConnected, inbox, handlers,
                   dispatch, sent, invoked, raisedOn, doneMsgs, expected, regCalls,
                   redundantCalls>>

\* a service publishes a message on the from-orchestrator channel: the broker
\* hands it to the connections subscribed at that moment
PublishMessage ==
    /\ sent < MaxMsgs
    /\ sent' = sent + 1
    /\ inbox' = IF brokerSubscribed THEN Append(inbox, sent + 1) ELSE inbox
    /\ expected' = [expected EXCEPT ![sent + 1] = IF subscribed THEN regCalls ELSE {}]
    /\ UNCHANGED <<now, gateVars, lifeVars, loopVars, busVars, metricVars, restVars, busConnected, callbacks,
                   brokerSubscribed, listenerRunning, handlers, subscribed, startPc,
                   dispatch, invoked, raisedOn, doneMsgs, regCalls, redundantCalls>>

\* RedisBus._dispatch reaches callback number n of the channel: the Router's
\* _on_message makes one task per entry of _handlers and gathers them
EnterCallback(m, n) ==
    [msg |-> m, next |-> n + 1, tasks |-> handlers, pending |-> 1..Len(handlers)]

\* RedisBus._listen gets a message and _dispatch calls the first callback
ListenerReceive ==
    /\ listenerRunning
    /\ dispatch.msg = 0
    /\ inbox # <<>>
    /\ inbox' = Tail(inbox)
    /\ dispatch' = IF Len(callbacks.list) >= 1
                   THEN EnterCallback(Head(inbox), 1)
                   ELSE [NoDispatch EXCEPT !.msg = Head(inbox), !.next = 1]
    /\ UNCHANGED <<now, gateVars, lifeVars, loopVars, busVars, metricVars, restVars, busConnected, callbacks,
                   brokerSubscribed, listenerRunning, handlers, subscribed, startPc,
                   sent, invoked, raisedOn, doneMsgs, expected, regCalls, redundantCalls>>

\* the gathered tasks left after task i raised: _dispatch_to_handler catches
\* and logs the exception, the other tasks are not touched
PendingAfterRaiseUnwinds(pending, i) == {}
PendingAfterRaise(pending, i) == pending \ {i}

\* one gathered task runs: _dispatch_to_handler awaits the handler, which
\* returns or raises
HandlerRun(i, raises) ==
    /\ dispatch.msg # 0
    /\ i \in dispatch.pending
    /\ LET m == dispatch.msg
           h == dispatch.tasks[i]
       IN /\ invoked' = [invoked EXCEPT ![m][h] = IF @ < MaxCopies THEN @ + 1 ELSE @]
          /\ raisedOn' = IF raises THEN [raisedOn EXCEPT ![m] = @ \cup {h}] ELSE raisedOn
    /\ dispatch' = [dispatch EXCEPT !.pending =
                       IF raises THEN PendingAfterRaise(@, i) ELSE @ \ {i}]
    /\ UNCHANGED <<now, gateVars, lifeVars, loopVars, busVars, metricVars, restVars, busConnected, callbacks,
                   brokerSubscribed, listenerRunning, inbox, handlers, subscribed,
                   startPc, sent, doneMsgs, expected, regCalls, redundantCalls>>

\* asyncio.gather returns: _dispatch goes on to the channel's next callback,
\* or is over
GatherDone ==
    /\ dispatch.msg # 0
    /\ dispatch.pending = {}
    /\ IF dispatch.next <= Len(callbacks.list)
       THEN /\ dispatch' = EnterCallback(dispatch.msg, dispatch.next)
            /\ UNCHANGED doneMsgs
       ELSE /\ dispatch' = NoDispatch
            /\ doneMsgs' = doneMsgs \cup {dispatch.msg}
    /\ UNCHANGED <<now, gateVars, lifeVars, loopVars, busVars, metricVars, restVars, busConnected, callbacks,
                   brokerSubscribed, listenerRunning, inbox, handlers, subscribed,
                   startPc, sent, invoked, raisedOn, expected, regCalls, redundantCalls>>

RouterNext ==
    \/ BusConnect
    \/ \E h \in Handlers : RegisterHandler(h)
    \/ StartBegin
    \/ StartSubscribed
    \/ PublishMessage
    \/ ListenerReceive
    \/ \E i \in dispatch.pending, raises \in BOOLEAN : HandlerRun(i, raises)
    \/ GatherDone

\* the channel's entry of RedisBus._callbacks when there is none
NoEntry == [present |-> FALSE, list |-> <<>>]

\* MessageRouter.stop, router.py lines 97-112: when subscribed it calls
\* RedisBus.unsubscribe, which does nothing without a pubsub object and
\* otherwise deletes the channel's entry, and clears _subscribed
RouterStop ==
    /\ startPc = "idle"
    /\ dispatch.msg = 0
    /\ IF ~subscribed
       THEN UNCHANGED <<callbacks, brokerSubscribed, subscribed>>
       ELSE /\ subscribed' = FALSE
            /\ IF busConnected /\ callbacks.present
               THEN callbacks' = NoEntry /\ brokerSubscribed' = FALSE
               ELSE UNCHANGED <<callbacks, brokerSubscribed>>
    /\ UNCHANGED <<now, gateVars, lifeVars, loopVars, busVars, metricVars, restVars,
                   busConnected, listenerRunning, inbox, handlers, startPc, dispatch, sent,
                   invoked, raisedOn, doneMsgs, expected, regCalls, redundantCalls>>

\* RedisBus.unsubscribe of the channel, bus.py lines 191-203, called by
\* another user of the Bus
ChannelUnsubscribed ==
    /\ startPc = "idle"
    /\ dispatch.msg = 0
    /\ busConnected /\ callbacks.present
    /\ callbacks' = NoEntry
    /\ brokerSubscribed' = FALSE
    /\ UNCHANGED <<now, gateVars, lifeVars, loopVars, busVars, metricVars, restVars,
                   busConnected, listenerRunning, inbox, handlers, subscribed, startPc,
                   dispatch, sent, invoked, raisedOn, doneMsgs, expected, regCalls,
                   redundantCalls>>

\* RedisBus.disconnect, bus.py lines 76-98: the listener is cancelled, the
\* pubsub and the client are closed and _callbacks is cleared
BusDisconnected ==
    /\ startPc = "idle"
    /\ dispatch.msg = 0
    /\ busConnected
    /\ busConnected' = FALSE
    /\ callbacks' = NoEntry
    /\ brokerSubscribed' = FALSE
    /\ listenerRunning' = FALSE
    /\ inbox' = <<>>
    /\ UNCHANGED <<now, gateVars, lifeVars, loopVars, busVars, metricVars, restVars,
                   handlers, subscribed, startPc, dispatch, sent, invoked, raisedOn,
                   doneMsgs, expected, regCalls, redundantCalls>>

\* the Router and the other users of its Bus
RouterBusNext ==
    \/ BusConnect
    \/ \E h \in Handlers : RegisterHandler(h)
    \/ StartBegin
    \/ StartSubscribed
    \/ RouterStop
    \/ ChannelUnsubscribed
    \/ BusDisconnected
    \/ PublishMessage
    \/ ListenerReceive
    \/ \E i \in dispatch.pending, raises \in BOOLEAN : HandlerRun(i, raises)
    \/ GatherDone

(***************************************************************************)
(* Bus: services/discord/core/bus.py                                       *)
(***************************************************************************)
\* CHANNEL_FROM_ORCHESTRATOR, the channel the adapters subscribe to
BusChannels == {"fullsend:from_orchestrator"}

BusMsgs == 1..MaxBusMsgs

\* the listener task: "none" when _listener_task is None, "get" while it
\* awaits get_message, "run" while it awaits a callback, "sleep" after a
\* ConnectionError, "done" when the task is over; list is the list object
\* _dispatch iterates, live tells that it still is the channel's entry
NoListener == [pc |-> "none", ch |-> "", msg |-> 0, list |-> <<>>, idx |-> 0, live |-> FALSE]

NoSubscribe == [ch |-> "", cb |-> ""]

NoBusOp == [op |-> "none", raised |-> "none"]

\* RedisBus after __init__
BusIdle ==
    /\ busRedis = FALSE
    /\ busPubsub = FALSE
    /\ busRunning = FALSE
    /\ busCallbacks = [ch \in BusChannels |-> [present |-> FALSE, list |-> <<>>]]
    /\ busListener = NoListener
    /\ cancelRequested = FALSE
    /\ disconnectPc = "idle"
    /\ pendingSubscribe = NoSubscribe
    /\ linkUp = FALSE
    /\ brokerSubs = {}
    /\ pubsubChannels = {}
    /\ busInbox = <<>>
    /\ busSent = 0
    /\ chanOf = [m \in BusMsgs |-> ""]
    /\ gotMsgs = {}
    /\ regAt = [m \in BusMsgs |-> {}]
    /\ begun = [m \in BusMsgs |-> {}]
    /\ ended = [m \in BusMsgs |-> {}]
    /\ raisedIn = [m \in BusMsgs |-> {}]
    /\ cancelledIn = [m \in BusMsgs |-> {}]
    /\ dispatched = {}
    /\ lastBusOp = NoBusOp
    /\ sleeps = 0

\* the bus of a service that starts next to a running broker
BusInit ==
    /\ BusIdle
    /\ brokerUp = TRUE

\* RedisBus.is_connected
BusIsConnected == busRedis /\ busRunning

Range(s) == {s[i] : i \in 1..Len(s)}

\* while self._running: where the listener is after one round of its loop
LoopTop(running) == IF running THEN "get" ELSE "done"

ListenerAt(pc) == [NoListener EXCEPT !.pc = pc]

\* subscribe, lines 188-189: a listener task is created when there is none or
\* it is done; _listen returns at once without a pubsub
StartListener(l, pubsub, running) ==
    IF l.pc \in {"none", "done"}
    THEN IF pubsub THEN ListenerAt(LoopTop(running)) ELSE ListenerAt("done")
    ELSE l

\* RedisBus.connect, called before the service disconnects: from_url, ping,
\* pubsub; an unreachable broker leaves the bus as it was and raises
\* ConnectionError
BusConnectCall ==
    /\ disconnectPc = "idle"
    /\ IF busRedis
       THEN /\ lastBusOp' = [op |-> "connect", raised |-> "none"]
            /\ UNCHANGED busFlags
       ELSE IF brokerUp
       THEN /\ busRedis' = TRUE
            /\ busPubsub' = TRUE
            /\ busRunning' = TRUE
            /\ lastBusOp' = [op |-> "connect", raised |-> "none"]
       ELSE /\ lastBusOp' = [op |-> "connect", raised |-> "ConnectionError"]
            /\ UNCHANGED busFlags
    /\ UNCHANGED <<busCallbacks, busListener, cancelRequested, disconnectPc,
                   pendingSubscribe, brokerVars, busInbox, busSent, chanOf, busLog, sleeps, nonBusVars>>

\* the broker hands a message published on ch to the pubsub connection when
\* it is subscribed to ch
Deliver(box, ch, m) ==
    IF linkUp /\ ch \in brokerSubs THEN Append(box, [ch |-> ch, msg |-> m]) ELSE box

\* another service publishes on ch
ExternalPublish(ch) ==
    /\ busSent < MaxBusMsgs
    /\ brokerUp
    /\ busSent' = busSent + 1
    /\ chanOf' = [chanOf EXCEPT ![busSent + 1] = ch]
    /\ busInbox' = Deliver(busInbox, ch, busSent + 1)
    /\ UNCHANGED <<busFlags, busCallbacks, busListener, cancelRequested, disconnectPc,
                   pendingSubscribe, brokerVars, busLog, lastBusOp,
                   sleeps, nonBusVars>>

\* RedisBus.publish called by op: raises ConnectionError without a client,
\* and when the broker cannot be reached
PublishVia(op, ch) ==
    /\ IF ~busRedis \/ ~brokerUp
       THEN /\ lastBusOp' = [op |-> op, raised |-> "ConnectionError"]
            /\ UNCHANGED <<busSent, chanOf, busInbox>>
       ELSE /\ busSent' = busSent + 1
            /\ chanOf' = [chanOf EXCEPT ![busSent + 1] = ch]
            /\ busInbox' = Deliver(busInbox, ch, busSent + 1)
            /\ lastBusOp' = [op |-> op, raised |-> "none"]
    /\ UNCHANGED <<busFlags, busCallbacks, busListener, cancelRequested, disconnectPc,
                   pendingSubscribe, brokerVars, busLog, sleeps, nonBusVars>>

BusPublishCall(ch) ==
    /\ busSent < MaxBusMsgs
    /\ PublishVia("publish", ch)

\* the listener's view of the list object when cb is appended to the entry
\* of ch: _dispatch iterates the list itself, so it sees the new callback
AppendSeen(l, ch, cb) ==
    IF l.pc = "run" /\ l.live /\ l.ch = ch THEN [l EXCEPT !.list = Append(@, cb)] ELSE l

\* RedisBus.subscribe up to its await: raises ConnectionError without a
\* pubsub; for a new channel it makes the entry and sends SUBSCRIBE, for a
\* known one it appends the callback and starts the listener
BusSubscribeCall(ch, cb) ==
    /\ pendingSubscribe = NoSubscribe
    /\ ~InList(busCallbacks[ch].list, cb)
    /\ Len(busCallbacks[ch].list) < MaxCallbacks
    /\ IF ~busPubsub
       THEN /\ lastBusOp' = [op |-> "subscribe", raised |-> "ConnectionError"]
            /\ UNCHANGED <<busCallbacks, busListener, pendingSubscribe, brokerVars>>
       ELSE IF ~busCallbacks[ch].present
       THEN /\ busCallbacks' = [busCallbacks EXCEPT ![ch] = [present |-> TRUE, list |-> <<>>]]
            /\ IF brokerUp
               THEN /\ linkUp' = TRUE
                    /\ brokerSubs' = (IF linkUp THEN brokerSubs ELSE pubsubChannels) \cup {ch}
                    /\ pubsubChannels' = pubsubChannels \cup {ch}
                    /\ pendingSubscribe' = [ch |-> ch, cb |-> cb]
                    /\ UNCHANGED <<brokerUp, lastBusOp>>
               ELSE /\ lastBusOp' = [op |-> "subscribe", raised |-> "ConnectionError"]
                    /\ UNCHANGED <<pendingSubscribe, brokerVars>>
            /\ UNCHANGED busListener
       ELSE /\ busCallbacks' = [busCallbacks EXCEPT ![ch].list = Append(@, cb)]
            /\ busListener' = StartListener(AppendSeen(busListener, ch, cb), busPubsub, busRunning)
            /\ lastBusOp' = [op |-> "subscribe", raised |-> "none"]
            /\ UNCHANGED <<pendingSubscribe, brokerVars>>
    /\ UNCHANGED <<busFlags, cancelRequested, disconnectPc, busInbox, busSent, chanOf, busLog, sleeps, nonBusVars>>

\* the broker's answer to SUBSCRIBE arrives: subscribe appends the callback
\* to the channel's entry (KeyError when the entry is gone) and starts the
\* listener
BusSubscribeDone ==
    /\ pendingSubscribe # NoSubscribe
    /\ pendingSubscribe' = NoSubscribe
    /\ LET ch == pendingSubscribe.ch
           cb == pendingSubscribe.cb
       IN IF ~busCallbacks[ch].present
          THEN /\ lastBusOp' = [op |-> "subscribe", raised |-> "KeyError"]
               /\ UNCHANGED <<busCallbacks, busListener>>
          ELSE /\ busCallbacks' = [busCallbacks EXCEPT ![ch].list = Append(@, cb)]
               /\ busListener' = StartListener(AppendSeen(busListener, ch, cb),
                                               busPubsub, busRunning)
               /\ lastBusOp' = [op |-> "subscribe", raised |-> "none"]
    /\ UNCHANGED <<busFlags, cancelRequested, disconnectPc, brokerVars, busInbox,
                   busSent, chanOf, busLog, sleeps, nonBusVars>>

\* the iteration of _dispatch goes on over the list object after the entry
\* of its channel is deleted
Detached(l, ch) == IF l.ch = ch THEN [l EXCEPT !.live = FALSE] ELSE l

\* RedisBus.unsubscribe: returns without a pubsub; deletes the channel's
\* entry and sends UNSUBSCRIBE
BusUnsubscribeCall(ch) ==
    /\ IF ~busPubsub \/ ~busCallbacks[ch].present
       THEN /\ lastBusOp' = [op |-> "unsubscribe", raised |-> "none"]
            /\ UNCHANGED <<busCallbacks, busListener, brokerVars>>
       ELSE /\ busCallbacks' = [busCallbacks EXCEPT ![ch] = [present |-> FALSE, list |-> <<>>]]
            /\ busListener' = Detached(busListener, ch)
            /\ IF brokerUp
               THEN /\ linkUp' = TRUE
                    /\ brokerSubs' = (IF linkUp THEN brokerSubs ELSE pubsubChannels) \ {ch}
                    /\ pubsubChannels' = pubsubChannels \ {ch}
                    /\ lastBusOp' = [op |-> "unsubscribe", raised |-> "none"]
                    /\ UNCHANGED brokerUp
               ELSE /\ lastBusOp' = [op |-> "unsubscribe", raised |-> "ConnectionError"]
                    /\ UNCHANGED brokerVars
    /\ UNCHANGED <<busFlags, cancelRequested, disconnectPc, pendingSubscribe, busInbox,
                   busSent, chanOf, busLog, sleeps, nonBusVars>>

\* _listen, line 221: the dispatch is awaited, so the listener asks for the
\* next message only when it is not inside one
ListenerReadsDuringDispatch(pc) == pc \in {"get", "run"}
ListenerMayReceive(pc) == pc = "get"

\* get_message returns a message: _dispatch takes the channel's list and
\* calls its first callback
BusListenerGet ==
    /\ ListenerMayReceive(busListener.pc)
    /\ ~cancelRequested
    /\ busInbox # <<>>
    /\ LET e == Head(busInbox)
           cbs == busCallbacks[e.ch].list
       IN /\ busInbox' = Tail(busInbox)
          /\ gotMsgs' = gotMsgs \cup {e.msg}
          /\ regAt' = [regAt EXCEPT ![e.msg] = Range(cbs)]
          /\ IF cbs = <<>>
             THEN /\ busListener' = ListenerAt(LoopTop(busRunning))
                  /\ dispatched' = dispatched \cup {e.msg}
                  /\ UNCHANGED begun
             ELSE /\ busListener' = [pc |-> "run", ch |-> e.ch, msg |-> e.msg,
                                     list |-> cbs, idx |-> 1, live |-> TRUE]
                  /\ begun' = [begun EXCEPT ![e.msg] = @ \cup {cbs[1]}]
                  /\ UNCHANGED dispatched
    /\ UNCHANGED <<busFlags, busCallbacks, cancelRequested, disconnectPc,
                   pendingSubscribe, brokerVars, busSent, chanOf,
                   ended, raisedIn, cancelledIn, lastBusOp, sleeps, nonBusVars>>

\* _dispatch, lines 240-244: the callback after callback idx; an exception
\* of the callback is caught and logged and the loop goes on
CallbackAfterAbandons(list, idx, raises) == IF raises THEN Len(list) + 1 ELSE idx + 1
CallbackAfter(list, idx, raises) == idx + 1

\* the callback that _dispatch awaits returns or raises
BusHandlerEnd(raises) ==
    /\ busListener.pc = "run"
    /\ ~cancelRequested
    /\ LET m == busListener.msg
           cb == busListener.list[busListener.idx]
           next == CallbackAfter(busListener.list, busListener.idx, raises)
       IN /\ ended' = [ended EXCEPT ![m] = @ \cup {cb}]
          /\ raisedIn' = IF raises THEN [raisedIn EXCEPT ![m] = @ \cup {cb}] ELSE raisedIn
          /\ IF next <= Len(busListener.list)
             THEN /\ busListener' = [busListener EXCEPT !.idx = next]
                  /\ begun' = [begun EXCEPT ![m] = @ \cup {busListener.list[next]}]
                  /\ UNCHANGED dispatched
             ELSE /\ busListener' = ListenerAt(LoopTop(busRunning))
                  /\ dispatched' = dispatched \cup {m}
                  /\ UNCHANGED begun
    /\ UNCHANGED <<busFlags, busCallbacks, cancelRequested, disconnectPc,
                   pendingSubscribe, brokerVars, busInbox, busSent, chanOf, gotMsgs, regAt, cancelledIn, lastBusOp, sleeps, nonBusVars>>

\* get_message on a connection that is down raises redis.ConnectionError:
\* the listener logs it and sleeps one second
BusListenerConnError ==
    /\ busListener.pc = "get"
    /\ ~cancelRequested
    /\ ~linkUp
    /\ pubsubChannels # {}
    /\ sleeps < MaxSleeps
    /\ busListener' = ListenerAt("sleep")
    /\ sleeps' = sleeps + 1
    /\ UNCHANGED <<busFlags, busCallbacks, cancelRequested, disconnectPc,
                   pendingSubscribe, brokerVars, busInbox, busSent, chanOf, busLog, lastBusOp, nonBusVars>>

\* asyncio.sleep(1.0) is over: back to the top of the loop
BusListenerWake ==
    /\ busListener.pc = "sleep"
    /\ ~cancelRequested
    /\ busListener' = ListenerAt(LoopTop(busRunning))
    /\ UNCHANGED <<busFlags, busCallbacks, cancelRequested, disconnectPc,
                   pendingSubscribe, brokerVars, busInbox, busSent, chanOf, busLog, lastBusOp, sleeps, nonBusVars>>

\* get_message on a connection that is down, with the broker back: the
\* client connects again and subscribes the channels it holds
BusListenerReconnect ==
    /\ busListener.pc = "get"
    /\ ~cancelRequested
    /\ ~linkUp
    /\ pubsubChannels # {}
    /\ brokerUp
    /\ linkUp' = TRUE
    /\ brokerSubs' = pubsubChannels
    /\ UNCHANGED <<busFlags, busCallbacks, busListener, cancelRequested, disconnectPc,
                   pendingSubscribe, brokerUp, pubsubChannels, busInbox, busSent, chanOf, busLog, lastBusOp, sleeps, nonBusVars>>

\* the listener task gets the CancelledError of disconnect at the await it
\* is suspended in: inside get_message, inside the sleep, or inside the
\* callback it awaits, which is cut short there
BusListenerCancelled ==
    /\ cancelRequested
    /\ busListener.pc \in {"get", "run", "sleep"}
    /\ cancelRequested' = FALSE
    /\ cancelledIn' = IF busListener.pc = "run"
                      THEN [cancelledIn EXCEPT ![busListener.msg] =
                               @ \cup {busListener.list[busListener.idx]}]
                      ELSE cancelledIn
    /\ busListener' = ListenerAt("done")
    /\ UNCHANGED <<busFlags, busCallbacks, disconnectPc, pendingSubscribe, brokerVars,
                   busInbox, busSent, chanOf, gotMsgs, regAt, begun,
                   ended, raisedIn, dispatched, lastBusOp, sleeps, nonBusVars>>

\* RedisBus.disconnect, lines 78-83: clear _running, cancel the listener
\* task and await it
BusDisconnectCall ==
    /\ disconnectPc = "idle"
    /\ busRunning' = FALSE
    /\ IF busListener.pc = "none"
       THEN /\ disconnectPc' = "release"
            /\ UNCHANGED cancelRequested
       ELSE /\ disconnectPc' = "await_listener"
            /\ cancelRequested' = (busListener.pc # "done")
    /\ UNCHANGED <<busRedis, busPubsub, busCallbacks, busListener, pendingSubscribe,
                   brokerVars, busInbox, busSent, chanOf, busLog,
                   lastBusOp, sleeps, nonBusVars>>

\* lines 83-86: the listener task is over, _listener_task = None
BusDisconnectJoined ==
    /\ disconnectPc = "await_listener"
    /\ busListener.pc = "done"
    /\ busListener' = NoListener
    /\ disconnectPc' = "release"
    /\ UNCHANGED <<busFlags, busCallbacks, cancelRequested, pendingSubscribe,
                   brokerVars, busInbox, busSent, chanOf, busLog,
                   lastBusOp, sleeps, nonBusVars>>

\* lines 88-91: unsubscribe from every channel and close the pubsub
BusDisconnectRelease ==
    /\ disconnectPc = "release"
    /\ IF busPubsub
       THEN /\ busPubsub' = FALSE
            /\ linkUp' = FALSE
            /\ brokerSubs' = {}
            /\ pubsubChannels' = {}
            /\ busInbox' = <<>>
            /\ UNCHANGED brokerUp
       ELSE UNCHANGED <<busPubsub, brokerVars, busInbox>>
    /\ disconnectPc' = "close"
    /\ UNCHANGED <<busRedis, busRunning, busCallbacks, busListener, cancelRequested,
                   pendingSubscribe, busSent, chanOf, busLog,
                   lastBusOp, sleeps, nonBusVars>>

\* lines 93-98: close the client, clear _callbacks, return
BusDisconnectClose ==
    /\ disconnectPc = "close"
    /\ busRedis' = FALSE
    /\ busCallbacks' = [ch \in BusChannels |-> [present |-> FALSE, list |-> <<>>]]
    /\ busListener' = [busListener EXCEPT !.live = FALSE]
    /\ disconnectPc' = "closed"
    /\ lastBusOp' = [op |-> "disconnect", raised |-> "none"]
    /\ UNCHANGED <<busPubsub, busRunning, cancelRequested, pendingSubscribe, brokerVars,
                   busInbox, busSent, chanOf, busLog, sleeps, nonBusVars>>

\* the connection to the broker drops: the broker forgets the connection's
\* subscriptions and what it had sent is lost
BrokerDrop ==
    /\ brokerUp
    /\ brokerUp' = FALSE
    /\ linkUp' = FALSE
    /\ brokerSubs' = {}
    /\ busInbox' = <<>>
    /\ UNCHANGED <<busFlags, busCallbacks, busListener, cancelRequested, disconnectPc,
                   pendingSubscribe, pubsubChannels, busSent, chanOf,
                   busLog, lastBusOp, sleeps, nonBusVars>>

\* the broker can be reached again
BrokerRestore ==
    /\ ~brokerUp
    /\ brokerUp' = TRUE
    /\ UNCHANGED <<busFlags, busCallbacks, busListener, cancelRequested, disconnectPc,
                   pendingSubscribe, linkUp, brokerSubs, pubsubChannels, busInbox,
                   busSent, chanOf, busLog, lastBusOp, sleeps, nonBusVars>>

BusNext ==
    \/ BusConnectCall
    \/ \E ch \in BusChannels : ExternalPublish(ch)
    \/ \E ch \in BusChannels : BusPublishCall(ch)
    \/ \E ch \in BusChannels, cb \in Handlers : BusSubscribeCall(ch, cb)
    \/ BusSubscribeDone
    \/ \E ch \in BusChannels : BusUnsubscribeCall(ch)
    \/ BusListenerGet
    \/ \E raises \in BOOLEAN : BusHandlerEnd(raises)
    \/ BusListenerCancelled
    \/ BusDisconnectCall
    \/ BusDisconnectJoined
    \/ BusDisconnectRelease
    \/ BusDisconnectClose

\* the bus next to a broker that goes away and comes back
OutageNext ==
    \/ BusConnectCall
    \/ \E ch \in BusChannels : ExternalPublish(ch)
    \/ \E ch \in BusChannels, cb \in Handlers : BusSubscribeCall(ch, cb)
    \/ BusSubscribeDone
    \/ BusListenerGet
    \/ \E raises \in BOOLEAN : BusHandlerEnd(raises)
    \/ BusListenerConnError
    \/ BusListenerWake
    \/ BusListenerReconnect
    \/ BrokerDrop
    \/ BrokerRestore

(***************************************************************************)
(* Degraded mode: a MessageRouter over a RedisBus that never connected     *)
(***************************************************************************)
\* CHANNEL_TO_AGENT, the channel MessageRouter.publish sends on
CHANNEL_TO_AGENT == "fullsend:discord_raw"

\* MessageRouter.is_connected, for a router that holds the bus
RouterIsConnected == BusIsConnected

\* what the router operations leave alone when they return early
RouterReturns(op) ==
    /\ lastBusOp' = [op |-> op, raised |-> "none"]
    /\ UNCHANGED <<busFlags, busCallbacks, busListener, cancelRequested, disconnectPc,
                   pendingSubscribe, brokerVars, busInbox, busSent, chanOf, busLog,
                   sleeps, nonBusVars>>

\* MessageRouter.start, lines 83-90: returns when it is already subscribed
\* and when it is not connected
RouterStartNotConnected ==
    /\ startPc = "idle"
    /\ subscribed \/ ~RouterIsConnected
    /\ RouterReturns("Router.start")

\* MessageRouter.stop on a router that is not subscribed: returns
RouterStopNotSubscribed ==
    /\ startPc = "idle"
    /\ ~subscribed
    /\ RouterReturns("Router.stop")

\* MessageRouter.publish: returns 0 when not connected, else publish_to_agent
RouterPublish ==
    IF ~RouterIsConnected
    THEN RouterReturns("Router.publish")
    ELSE /\ busSent < MaxBusMsgs
         /\ PublishVia("Router.publish", CHANNEL_TO_AGENT)

\* MessageRouter.publish_raw: returns 0 when not connected, else
\* RedisBus.publish on the channel
RouterPublishRaw(ch) ==
    IF ~RouterIsConnected
    THEN RouterReturns("Router.publish_raw")
    ELSE /\ busSent < MaxBusMsgs
         /\ PublishVia("Router.publish_raw", ch)

\* the service next to a broker that cannot be reached: connect fails, and
\* the operations of the bus and of the router are called all the same
DegradedNext ==
    \/ BusConnectCall
    \/ \E ch \in BusChannels : BusPublishCall(ch)
    \/ \E ch \in BusChannels, cb \in Handlers : BusSubscribeCall(ch, cb)
    \/ \E ch \in BusChannels : BusUnsubscribeCall(ch)
    \/ BusDisconnectCall
    \/ BusDisconnectRelease
    \/ BusDisconnectClose
    \/ \E h \in Handlers : RegisterHandler(h)
    \/ RouterStartNotConnected
    \/ RouterStopNotSubscribed
    \/ RouterPublish
    \/ \E ch \in BusChannels : RouterPublishRaw(ch)

(***************************************************************************)
(* Metric aggregation of the Monitor: services/redis_agent/monitor.py      *)
(***************************************************************************)
\* a value of a store hash or of a metrics snapshot: a number num/den, or a
\* text that float() does not parse
Num(n) == [kind |-> "num", num |-> n, den |-> 1]
Ratio(n, d) == [kind |-> "num", num |-> n, den |-> d]
Text == [kind |-> "text", num |-> 0, den |-> 1]

\* the JSON values of a metric's fields: numbers, true, strings
PyInt(n) == [type |-> "int", n |-> n]
PyBool == [type |-> "bool", n |-> 1]
PyStr == [type |-> "str", n |-> 0]

PyValues == {PyInt(1), PyInt(2), PyBool, PyStr}

\* isinstance(value, (int, float)): bool is a subclass of int
IsIntOrFloat(v) == v.type \in {"int", "float", "bool"}

\* float(value)
Float(v) == v.n

\* str(value): str(True) is "True"
Str(v) == IF v.type \in {"int", "float"} THEN Num(v.n) ELSE Text

\* the field names of the metrics; "timestamp" is one of the names that
\* update_aggregations skips
MetricFieldNames == {"x", "timestamp"}

\* the event names; "x" is also the name of a field
EventNames == {"open", "x"}

\* if key in ("experiment_id", "event", "timestamp", "message"): continue
SkippedNames == {"experiment_id", "event", "timestamp", "message"}

\* the metrics that arrive on the metrics channel for the experiment; event
\* "" stands for a metric without an event
Metrics ==
    {mt \in [event : EventNames \cup {""},
             fields : UNION {[D -> PyValues] : D \in SUBSET MetricFieldNames}] :
        "timestamp" \in DOMAIN mt.fields => mt.fields["timestamp"] = PyInt(2)}

NoMetric == [event |-> "", fields |-> <<>>]

NoIngest == [pc |-> "idle", metric |-> NoMetric, todo |-> {}, cur |-> ""]

NoSnapshot == [taken |-> FALSE, quiet |-> FALSE, raised |-> FALSE, metrics |-> <<>>]

AggInit ==
    /\ agg = <<>>
    /\ ingest = NoIngest
    /\ history = <<>>
    /\ snapshot = NoSnapshot

\* redis.hincrby / redis.hincrbyfloat on a field of the hash
HIncrBy(h, k, n) ==
    [f \in DOMAIN h \cup {k} |->
        IF f = k THEN Num((IF k \in DOMAIN h THEN h[k].num ELSE 0) + n) ELSE h[f]]

\* redis.hset on a field of the hash
HSet(h, k, v) == [f \in DOMAIN h \cup {k} |-> IF f = k THEN v ELSE h[f]]

\* f"{event}_count", f"{key}_sum", f"{key}_count", f"{key}_latest"
SumKey(name) == name \o "_sum"
CountKey(name) == name \o "_count"
LatestKey(name) == name \o "_latest"

\* process_metric, lines 60-71, and update_aggregations, lines 94-100: the
\* raw metric is stored and the event is counted
IngestBegin(metric) ==
    /\ ingest.pc = "idle"
    /\ Len(history) < MaxMetrics
    /\ agg' = IF metric.event # "" THEN HIncrBy(agg, CountKey(metric.event), 1) ELSE agg
    /\ ingest' = [pc |-> "fields", metric |-> metric, todo |-> DOMAIN metric.fields,
                  cur |-> ""]
    /\ snapshot' = NoSnapshot
    /\ UNCHANGED <<history, critVars, chkVars, nonMetricVars>>

Skipped(key) == key \in SkippedNames

\* lines 103-109: the next item of the metric; a skipped name or a value
\* that is not int or float is passed over, otherwise {key}_sum is
\* incremented
IngestField(key) ==
    /\ ingest.pc = "fields"
    /\ key \in ingest.todo
    /\ IF Skipped(key) \/ ~IsIntOrFloat(ingest.metric.fields[key])
       THEN /\ ingest' = [ingest EXCEPT !.todo = @ \ {key}]
            /\ UNCHANGED agg
       ELSE /\ agg' = HIncrBy(agg, SumKey(key), Float(ingest.metric.fields[key]))
            /\ ingest' = [ingest EXCEPT !.pc = "count", !.cur = key]
    /\ snapshot' = NoSnapshot
    /\ UNCHANGED <<history, critVars, chkVars, nonMetricVars>>

\* line 110: {key}_count is incremented
IngestCount ==
    /\ ingest.pc = "count"
    /\ agg' = HIncrBy(agg, CountKey(ingest.cur), 1)
    /\ ingest' = [ingest EXCEPT !.pc = "latest"]
    /\ snapshot' = NoSnapshot
    /\ UNCHANGED <<history, critVars, chkVars, nonMetricVars>>

\* line 112: {key}_latest is set to str(value)
IngestLatest ==
    /\ ingest.pc = "latest"
    /\ agg' = HSet(agg, LatestKey(ingest.cur), Str(ingest.metric.fields[ingest.cur]))
    /\ ingest' = [ingest EXCEPT !.pc = "fields", !.todo = @ \ {ingest.cur}, !.cur = ""]
    /\ snapshot' = NoSnapshot
    /\ UNCHANGED <<history, critVars, chkVars, nonMetricVars>>

\* line 116: last_updated is set and the metric is ingested
IngestStamp ==
    /\ ingest.pc = "fields"
    /\ ingest.todo = {}
    /\ agg' = HSet(agg, "last_updated", Text)
    /\ history' = Append(history, ingest.metric)
    /\ ingest' = NoIngest
    /\ snapshot' = NoSnapshot
    /\ UNCHANGED <<critVars, chkVars, nonMetricVars>>

\* the names a key of the hash can start with
KeyBases == MetricFieldNames \cup EventNames

\* key.endswith(suffix) and key.rsplit(suffix, 1)[0]
EndsWith(k, suffix) == \E b \in KeyBases : k = b \o suffix
BaseOf(k, suffix) == CHOOSE b \in KeyBases : k = b \o suffix

\* get_current_metrics, lines 145-165, on the decoded hash: the keys of the
\* snapshot and their values
SumBases(h) == {b \in KeyBases : SumKey(b) \in DOMAIN h}

\* lines 149-154: a _count key goes to counts when the hash has the _sum of
\* its base, and into the snapshot as an event count otherwise
CountBases(h) == {b \in KeyBases : CountKey(b) \in DOMAIN h /\ SumKey(b) \in DOMAIN h}
EventCountKeys(h) ==
    {k \in DOMAIN h : EndsWith(k, "_count") /\ ~EndsWith(k, "_sum")
                         /\ SumKey(BaseOf(k, "_count")) \notin DOMAIN h}

LatestKeys(h) ==
    {k \in DOMAIN h : EndsWith(k, "_latest") /\ ~EndsWith(k, "_sum")
                         /\ ~EndsWith(k, "_count")}

\* lines 162-164: name_avg for the names with a sum and a positive count
AvgBases(h) == {b \in SumBases(h) \cap CountBases(h) : h[CountKey(b)].num > 0}

SnapshotKeys(h) ==
    EventCountKeys(h) \cup LatestKeys(h) \cup ({"last_updated"} \cap DOMAIN h)
       \cup SumBases(h) \cup {b \o "_avg" : b \in AvgBases(h)}

\* float(value) of a _latest field raises ValueError on a text
SnapshotRaises(h) == \E k \in LatestKeys(h) : h[k].kind # "num"

SnapshotValue(h, k) ==
    IF k \in SumBases(h) THEN h[SumKey(k)]
    ELSE IF \E b \in AvgBases(h) : k = b \o "_avg"
    THEN LET b == CHOOSE c \in AvgBases(h) : k = c \o "_avg"
         IN Ratio(h[SumKey(b)].num, h[CountKey(b)].num)
    ELSE h[k]

\* get_current_metrics: {} for an empty hash, else the snapshot
GetCurrentMetrics(h) ==
    IF DOMAIN h = {} THEN [raised |-> FALSE, metrics |-> <<>>]
    ELSE IF SnapshotRaises(h) THEN [raised |-> TRUE, metrics |-> <<>>]
    ELSE [raised |-> FALSE, metrics |-> [k \in SnapshotKeys(h) |-> SnapshotValue(h, k)]]

\* a task calls get_current_metrics: one hgetall, then the computation
ReadMetrics ==
    /\ ~snapshot.taken
    /\ LET r == GetCurrentMetrics(agg)
       IN snapshot' = [taken |-> TRUE, quiet |-> (ingest.pc = "idle"),
                       raised |-> r.raised, metrics |-> r.metrics]
    /\ UNCHANGED <<agg, ingest, history, critVars, chkVars, nonMetricVars>>

AggNext ==
    \/ \E metric \in Metrics : IngestBegin(metric)
    \/ \E key \in MetricFieldNames : IngestField(key)
    \/ IngestCount
    \/ IngestLatest
    \/ IngestStamp
    \/ ReadMetrics

(***************************************************************************)
(* evaluate_criterion: services/redis_agent/monitor.py                     *)
(***************************************************************************)
\* a criterion: whether it is a str, and what criterion.split() gives
Criterion(tokens) == [str |-> TRUE, tokens |-> tokens]

\* a criterion that is not a str (a number, a list, None)
NotAString == [str |-> FALSE, tokens |-> <<>>]

CriterionNames == {"x", "y"}
OperatorTokens == {">", "<", ">=", "<=", "==", "!=", "=>"}
ThresholdTokens == {"1", "2", "abc"}

Criteria ==
    {Criterion(<<n, op, t>>) : n \in CriterionNames, op \in OperatorTokens,
                                t \in ThresholdTokens}
       \cup {NotAString, Criterion(<<>>), Criterion(<<"x", ">">>),
             Criterion(<<"x", ">", "1", "2">>)}

\* float(threshold_str): the tokens it parses, and their values
FloatOf == [t \in {"1", "2"} |-> IF t = "1" THEN 1 ELSE 2]

\* the snapshots evaluate_criterion is applied to: x, x_latest and x_avg,
\* each missing, a number, or a text
SnapshotValues == {Num(1), Num(2), Ratio(3, 2), Text}
CriterionKeys == {"x", "x_latest", "x_avg"}
CriterionMetrics == UNION {[D -> SnapshotValues] : D \in SUBSET CriterionKeys}

CritInit ==
    /\ criterion = NotAString
    /\ critMetrics = <<>>
    /\ critResult = "unset"

\* lines 331-335: metrics.get(name), then name_latest, then name_avg
LookupAvgFirst(name) == <<name \o "_avg", name \o "_latest", name>>
LookupKeys(name) == <<name, name \o "_latest", name \o "_avg">>

\* the value evaluate_criterion compares: the first of the keys that the
\* snapshot has, [found |-> FALSE] when it has none
Lookup(name, m) ==
    LET keys == LookupKeys(name)
        present == {i \in 1..Len(keys) : keys[i] \in DOMAIN m}
    IN IF present = {} THEN [found |-> FALSE, value |-> Text]
       ELSE [found |-> TRUE,
             value |-> m[keys[CHOOSE i \in present : \A j \in present : i <= j]]]

\* lines 344-355 on value = v.num / v.den (den > 0) and the threshold
Compare(v, operator, threshold) ==
    LET l == v.num
        r == threshold * v.den
    IN IF operator = ">" THEN l > r
       ELSE IF operator = "<" THEN l < r
       ELSE IF operator = ">=" THEN l >= r
       ELSE IF operator = "<=" THEN l <= r
       ELSE IF operator = "==" THEN l = r
       ELSE IF operator = "!=" THEN l # r
       ELSE FALSE

\* evaluate_criterion
EvaluateCriterion(c, m) ==
    IF ~c.str \/ Len(c.tokens) # 3 THEN FALSE
    ELSE LET metric_name == c.tokens[1]
             operator == c.tokens[2]
             threshold_str == c.tokens[3]
             found == Lookup(metric_name, m)
         IN IF threshold_str \notin DOMAIN FloatOf THEN FALSE
            ELSE IF ~found.found THEN FALSE
            ELSE IF found.value.kind # "num" THEN FALSE
            ELSE Compare(found.value, operator, FloatOf[threshold_str])

\* a caller evaluates the criterion against the snapshot
Evaluate ==
    /\ critResult = "unset"
    /\ critResult' = IF EvaluateCriterion(criterion, critMetrics) THEN "true" ELSE "false"
    /\ UNCHANGED <<criterion, critMetrics, aggVars, chkVars, nonMetricVars>>

CriterionNext == Evaluate

(***************************************************************************)
(* check_experiment_thresholds: services/redis_agent/monitor.py            *)
(***************************************************************************)
\* the criteria of the experiment: one that holds of the metrics, one that
\* does not
CheckCriteria == {Criterion(<<"x", ">", "1">>), Criterion(<<"x", "<", "1">>)}

CriteriaLists == {<<>>} \cup {<<c>> : c \in CheckCriteria}
                    \cup {<<c, d>> : c \in CheckCriteria, d \in CheckCriteria}

\* the experiments the loop passes to check_experiment_thresholds
CheckedExperiments ==
    [id : Experiments, success_criteria : CriteriaLists, failure_criteria : CriteriaLists]

\* what get_current_metrics returned: nothing, or x = 2
CheckedMetrics == {<<>>, [k \in {"x"} |-> Num(2)]}

NoCheck == [pc |-> "idle", idx |-> 0, start |-> 0, end |-> 0, env |-> NoEnvelope]

ChkInit ==
    /\ chk = NoCheck
    /\ chkExp = [id |-> "e1", success_criteria |-> <<>>, failure_criteria |-> <<>>]
    /\ current_metrics = <<>>

\* the alert dict of the kind: type, and severity where the code sets one
AlertTypeOf(kind) == IF kind = "success" THEN "success_threshold" ELSE "failure_threshold"
Severity(alert_type) ==
    IF alert_type \in {"failure_threshold", "error"} THEN "high" ELSE "none"

CriteriaOf(kind) ==
    IF kind = "success" THEN chkExp.success_criteria ELSE chkExp.failure_criteria

\* lines 263-269: no id or no metrics: return; else go to the success
\* criteria
CheckCall(exp, metrics) ==
    /\ chk.pc = "idle"
    /\ chkExp' = exp
    /\ current_metrics' = metrics
    /\ chk' = IF exp.id = "" \/ DOMAIN metrics = {}
              THEN [NoCheck EXCEPT !.pc = "returned", !.start = now, !.end = now]
              ELSE [NoCheck EXCEPT !.pc = "success", !.idx = 1, !.start = now]
    /\ UNCHANGED <<now, gateVars, aggVars, critVars, lifeVars, loopVars, routerVars,
                   busVars, restVars>>

\* where the call is after criterion idx of the kind
AfterCriterion(kind, idx) ==
    IF idx < Len(CriteriaOf(kind)) THEN [pc |-> kind, idx |-> idx + 1]
    ELSE IF kind = "success" THEN [pc |-> "failure", idx |-> 1]
    ELSE [pc |-> "returned", idx |-> 0]

\* the call moves on to the next criterion, the other list, or returns
MoveOn(kind) ==
    LET nxt == AfterCriterion(kind, chk.idx)
    IN [chk EXCEPT !.pc = nxt.pc, !.idx = nxt.idx, !.env = NoEnvelope,
                   !.end = IF nxt.pc = "returned" THEN now ELSE @]

\* if evaluate_criterion(criterion, current_metrics): await send_alert(...)
Hits(c, m) == EvaluateCriterion(c, m)

\* lines 276-287 and 294-306: the next criterion of the kind is evaluated
\* and, when it holds, send_alert is called
CheckCriterion(kind) ==
    /\ chk.pc = kind
    /\ IF chk.idx > Len(CriteriaOf(kind))
       THEN /\ chk' = MoveOn(kind)
            /\ UNCHANGED gateVars
       ELSE IF Hits(CriteriaOf(kind)[chk.idx], current_metrics)
       THEN /\ GateStep(chkExp.id, AlertTypeOf(kind))
            /\ UNCHANGED published
            /\ IF InCooldown(recent_alerts, AlertKey(chkExp.id, AlertTypeOf(kind)), now)
               THEN chk' = MoveOn(kind)
               ELSE chk' = [chk EXCEPT !.pc = "await_" \o kind,
                               !.env = [id |-> chkExp.id, type |-> AlertTypeOf(kind),
                                        timestamp |-> now]]
       ELSE /\ chk' = MoveOn(kind)
            /\ UNCHANGED gateVars
    /\ UNCHANGED <<now, chkExp, current_metrics, aggVars, critVars, lifeVars, loopVars,
                   routerVars, busVars, restVars>>

\* send_alert returned True: on to the next criterion
CheckResume(kind) ==
    /\ chk.pc = "await_" \o kind
    /\ inflight[chk.env] = 0
    /\ chk' = MoveOn(kind)
    /\ UNCHANGED <<now, gateVars, chkExp, current_metrics, aggVars, critVars,
                   lifeVars, loopVars, routerVars, busVars, restVars>>

CheckNext ==
    \/ Tick
    \/ \E exp \in CheckedExperiments, metrics \in CheckedMetrics : CheckCall(exp, metrics)
    \/ CheckCriterion("success")
    \/ CheckCriterion("failure")
    \/ CheckResume("success")
    \/ CheckResume("failure")
    \/ \E env \in Envelopes : PublishDone(env)

(***************************************************************************)
(* process_metric: services/redis_agent/monitor.py and alerts.py           *)
(***************************************************************************)
\* settings.orchestrator_channel and settings.metrics_channel
orchestrator_channel == "fullsend:to_orchestrator"
metrics_channel == "fullsend:metrics"

\* metric.get("experiment_id"): an id, the empty string, or "None" for an
\* envelope without the field
MetricIdValues == {"e1", "", "None"}

\* the envelopes on the metrics channel: event "" and message "none" stand
\* for an envelope without the field, x = 0 for one without the field x
MetricEnvelopes ==
    {mt \in [experiment_id : MetricIdValues, event : {"error", "open", ""},
             message : {"boom", "none"}, x : {0, 1}] :
        /\ mt.event # "error" => mt.message = "none"
        /\ mt.experiment_id # "e1" => mt.x = 0}

NoEnvelopeMetric == [experiment_id |-> "None", event |-> "", message |-> "none", x |-> 0]

\* the alert dict as send_alert publishes it
NoAlert == [type |-> "", experiment_id |-> "", message |-> "", severity |-> "",
            timestamp |-> 0, source |-> ""]

NoProcess == [pc |-> "idle", metric |-> NoEnvelopeMetric, alert |-> NoAlert]

ProcInit ==
    /\ rawLists = [k \in MetricIdValues |-> <<>>]
    /\ proc = NoProcess
    /\ wire = {}
    /\ procLog = <<>>

\* what a process_metric call leaves alone
nonProcVars == <<lifeVars, loopVars, routerVars, busVars, ingest, history, snapshot,
                 critVars, chkVars, orchVars, lateVars>>

\* if not exp_id: return
DroppedNever(exp_id) == FALSE
Dropped(exp_id) == exp_id \in {"", "None"}

\* process_metric, lines 60-67: an envelope without experiment_id is
\* dropped, any other is appended to metrics:{exp_id}
ProcessBegin(metric) ==
    /\ proc.pc = "idle"
    /\ Len(procLog) < MaxMetrics
    /\ IF Dropped(metric.experiment_id)
       THEN /\ procLog' = Append(procLog, [metric |-> metric, result |-> "dropped", at |-> now])
            /\ UNCHANGED <<rawLists, proc>>
       ELSE /\ rawLists' = [rawLists EXCEPT ![metric.experiment_id] = Append(@, metric)]
            /\ proc' = [proc EXCEPT !.pc = "aggregate", !.metric = metric]
            /\ UNCHANGED procLog
    /\ UNCHANGED <<now, gateVars, agg, wire, nonProcVars>>

\* update_aggregations on the hash of the experiment: the event count, the
\* sum, count and latest of the numeric field, last_updated
Aggregated(h, metric) ==
    LET counted == IF metric.event # "" THEN HIncrBy(h, CountKey(metric.event), 1) ELSE h
        summed == IF metric.x # 0
                  THEN HSet(HIncrBy(HIncrBy(counted, SumKey("x"), metric.x),
                                    CountKey("x"), 1),
                            LatestKey("x"), Num(metric.x))
                  ELSE counted
    IN HSet(summed, "last_updated", Text)

\* process_metric, line 71: await update_aggregations
ProcessAggregate ==
    /\ proc.pc = "aggregate"
    /\ agg' = IF proc.metric.experiment_id = "e1" THEN Aggregated(agg, proc.metric) ELSE agg
    /\ proc' = [proc EXCEPT !.pc = "alert"]
    /\ UNCHANGED <<now, gateVars, rawLists, wire, procLog, nonProcVars>>

\* metric.get("message", "Unknown error")
MessageOfUnknown(metric) == "Unknown error"
MessageOf(metric) == IF metric.message = "none" THEN "Unknown error" ELSE metric.message

\* the alert dict process_metric passes to send_alert
ErrorAlert(metric) ==
    [type |-> "error", experiment_id |-> metric.experiment_id,
     message |-> MessageOf(metric), severity |-> "high", timestamp |-> 0, source |-> ""]

\* send_alert, lines 59-61: alert["timestamp"] and alert["source"] are set
StampedAlertNoSource(alert, t) == [alert EXCEPT !.timestamp = t]
StampedAlert(alert, t) == [alert EXCEPT !.timestamp = t, !.source = "redis_agent"]

\* send_alert, line 65: the channel of the publish
PublishChannel == orchestrator_channel

\* process_metric, lines 74-83: an error event goes to send_alert, which
\* returns False inside the cooldown and else stamps the alert and awaits
\* the publish
ProcessAlert ==
    /\ proc.pc = "alert"
    /\ LET m == proc.metric
           msg == StampedAlert(ErrorAlert(m), now)
       IN IF m.event # "error"
          THEN /\ procLog' = Append(procLog, [metric |-> m, result |-> "none", at |-> now])
               /\ proc' = NoProcess
               /\ UNCHANGED gateVars
          ELSE /\ GateStep(m.experiment_id, "error")
               /\ UNCHANGED published
               /\ IF InCooldown(recent_alerts, AlertKey(m.experiment_id, "error"), now)
                  THEN /\ procLog' = Append(procLog, [metric |-> m, result |-> "suppressed",
                                                     at |-> now])
                       /\ proc' = NoProcess
                  ELSE /\ procLog' = Append(procLog, [metric |-> m, result |-> "passed",
                                                     at |-> now])
                       /\ proc' = [proc EXCEPT !.pc = "publish", !.alert = msg]
    /\ UNCHANGED <<now, agg, rawLists, wire, nonProcVars>>

\* the envelope of the gate for a stamped alert
EnvelopeOf(msg) == [id |-> msg.experiment_id, type |-> msg.type, timestamp |-> msg.timestamp]

\* redis.publish of send_alert completes: the message is on the channel and
\* process_metric returns
ProcessPublished ==
    /\ proc.pc = "publish"
    /\ inflight[EnvelopeOf(proc.alert)] > 0
    /\ published[EnvelopeOf(proc.alert)] < MaxCopies
    /\ inflight' = [inflight EXCEPT ![EnvelopeOf(proc.alert)] = @ - 1]
    /\ published' = [published EXCEPT ![EnvelopeOf(proc.alert)] = @ + 1]
    /\ wire' = wire \cup {[channel |-> PublishChannel, alert |-> proc.alert]}
    /\ proc' = NoProcess
    /\ UNCHANGED <<now, recent_alerts, lastCall, agg, rawLists, procLog, nonProcVars>>

\* monitor_metrics_stream handles one envelope after the other
ProcessNext ==
    \/ Tick
    \/ \E metric \in MetricEnvelopes : ProcessBegin(metric)
    \/ ProcessAggregate
    \/ ProcessAlert
    \/ ProcessPublished


(***************************************************************************)
(* The Orchestrator: services/orchestrator/agent.py and dispatcher.py      *)
(***************************************************************************)
VALID_ACTIONS ==
    {"dispatch_to_fullsend", "dispatch_to_builder", "respond_to_discord",
     "update_worklist", "record_learning", "kill_experiment", "initiate_roundtable",
     "no_action"}

VALID_PRIORITIES == {"low", "medium", "high", "urgent"}

\* a value of the JSON object: a string, a value that is not a string (a
\* number, null, a list), or "absent" for a key the object does not have
Absent == [kind |-> "absent", s |-> ""]
NonString == [kind |-> "other", s |-> ""]
JsonString(s) == [kind |-> "str", s |-> s]

\* str.strip().lower() on the strings of the model
StripLower(s) ==
    CASE s = " Kill_Experiment " -> "kill_experiment"
      [] s = " HIGH" -> "high"
      [] OTHER -> s

ActionValues ==
    {Absent, NonString} \cup {JsonString(s) : s \in VALID_ACTIONS \cup {" Kill_Experiment ", "bogus"}}

PriorityValues ==
    {Absent, NonString} \cup {JsonString(s) : s \in VALID_PRIORITIES \cup {" HIGH", "bogus"}}

\* Decision.payload: the keys of the dict the Dispatcher reads; "absent"
\* stands for a key the dict does not have
EmptyPayload ==
    [kind |-> "dict", reason |-> "absent", experiment_id |-> "absent", prompt |-> "absent",
     content |-> "absent", error_type |-> "absent"]

\* data.get("payload", {}): no payload, a dict, or a value that is not a dict
NoPayload == [kind |-> "absent", reason |-> "absent", experiment_id |-> "absent",
              prompt |-> "absent"]
PayloadValues ==
    {NoPayload, [NoPayload EXCEPT !.kind = "notdict"]} \cup
    [kind : {"dict"}, reason : {"absent", "budget"}, experiment_id : {"absent", "e2"},
     prompt : {"absent", "p"}]

\* the text block of the model response: none, text without JSON, text
\* whose JSON does not parse, JSON that is not an object, or a JSON object
NoFields ==
    [action |-> Absent, priority |-> Absent, reasoning |-> "", experiment_id |-> "absent",
     payload |-> NoPayload]

ObjectResponses ==
    {[text |-> "object", data |-> d] :
        d \in [action : ActionValues, priority : PriorityValues, reasoning : {"", "stagnant"},
               experiment_id : {"absent", "", "e1"}, payload : PayloadValues]}

Responses ==
    {[text |-> t, data |-> NoFields] : t \in {"none", "prose", "badjson", "array"}}
        \cup ObjectResponses

NoResponse == [text |-> "none", data |-> NoFields]

\* the Decision dataclass, dispatcher.py lines 20-38
MakeDecision(action, reasoning, payload, priority, experiment_id, context_for_fullsend) ==
    [action |-> action, reasoning |-> reasoning, payload |-> payload, priority |-> priority,
     experiment_id |-> experiment_id, context_for_fullsend |-> context_for_fullsend]

NoDecision == MakeDecision("", "", EmptyPayload, "", "None", "None")

\* what a call gave: a Decision it returned, or the exception it raised
Returned(decision) == [kind |-> "returned", decision |-> decision, exc |-> ""]
Raised(exc) == [kind |-> "raised", decision |-> NoDecision, exc |-> exc]
NotCalled == [kind |-> "none", decision |-> NoDecision, exc |-> ""]

\* _validate_action, lines 173-179, on a string
ValidateAction(action) ==
    IF StripLower(action) \notin VALID_ACTIONS THEN "no_action" ELSE StripLower(action)

\* _validate_priority, lines 182-188, on a string
ValidatePriority(priority) ==
    IF StripLower(priority) \notin VALID_PRIORITIES THEN "medium" ELSE StripLower(priority)

\* data.get(key, default) for the string-valued keys
GetOr(value, default) == IF value.kind = "absent" THEN JsonString(default) ELSE value

\* lines 262-265: the payload, wrapped when it is not a dict
PayloadOf(p) ==
    IF p.kind = "absent" THEN EmptyPayload
    ELSE IF p.kind = "notdict" THEN [EmptyPayload EXCEPT !.kind = "wrapped"]
    ELSE [EmptyPayload EXCEPT !.reason = p.reason, !.experiment_id = p.experiment_id,
                              !.prompt = p.prompt]

\* line 272: data.get("experiment_id") or payload.get("experiment_id")
ExperimentIdOf(data, payload) ==
    IF data.experiment_id \notin {"absent", ""} THEN data.experiment_id
    ELSE IF payload.experiment_id = "absent" THEN "None"
    ELSE payload.experiment_id

\* lines 252-286: the fields of the JSON object become the Decision; strip
\* is called on the action and the priority whatever their type
DecisionOfObject(data) ==
    LET action == GetOr(data.action, "no_action")
        priority == GetOr(data.priority, "medium")
        payload == PayloadOf(data.payload)
    IN IF action.kind # "str" \/ priority.kind # "str"
       THEN Raised("AttributeError")
       ELSE LET act == ValidateAction(action.s)
            IN Returned(MakeDecision(act, data.reasoning, payload,
                   ValidatePriority(priority.s),
                   IF act = "kill_experiment" THEN ExperimentIdOf(data, payload) ELSE "None",
                   "None"))

\* parse_decision, lines 212-303
ParseDecisionOf(r) ==
    IF r.text = "none"
    THEN Returned(MakeDecision("no_action", "No text content in model response",
                               EmptyPayload, "low", "None", "None"))
    ELSE IF r.text = "badjson"
    THEN Returned(MakeDecision("no_action", "JSON parse error",
                               [EmptyPayload EXCEPT !.kind = "raw_response"], "low",
                               "None", "None"))
    ELSE IF r.text \in {"prose", "array"}
    THEN Returned(MakeDecision("no_action", "Validation error", EmptyPayload, "low",
                               "None", "None"))
    ELSE DecisionOfObject(r.data)

ParseInit ==
    /\ response = NoResponse
    /\ parsed = NotCalled

\* parse_decision is called with the response
ParseDecision ==
    /\ parsed.kind = "none"
    /\ parsed' = ParseDecisionOf(response)
    /\ UNCHANGED <<now, gateVars, lifeVars, loopVars, routerVars, busVars, metricVars,
                   lateVars, procVars, response, think, dispVars>>

ParseNext == ParseDecision

\* settings.thinking_timeout_seconds
thinking_timeout_seconds == 2

\* the exceptions the model call ends with, and the classes each is an
\* instance of beside its own
ModelExceptions ==
    {"APIConnectionError", "APITimeoutError", "RateLimitError", "APIStatusError",
     "RuntimeError"}

BasesOf(exc) ==
    CASE exc = "APITimeoutError" -> {"APIConnectionError"}
      [] exc = "RateLimitError" -> {"APIStatusError"}
      [] OTHER -> {}

IsInstance(exc, cls) == exc = cls \/ cls \in BasesOf(exc)

\* the responses the model call of process_with_thinking ends with
ThinkResponses ==
    {r \in Responses : r.data.payload.kind = "absent" /\ r.data.experiment_id = "absent"}

\* the incoming messages process_with_thinking is called with
ThinkMessages == {[type |-> "escalation", source |-> "watcher"]}

\* _create_timeout_fallback, lines 407-426
TimeoutFallbackQuiet(msg) ==
    MakeDecision("no_action", "Thinking timed out", EmptyPayload, "low", "None", "None")
TimeoutFallback(msg) ==
    MakeDecision("respond_to_discord", "Thinking timed out",
                 [EmptyPayload EXCEPT !.content = "I'm still thinking about this. Will update soon."],
                 "medium", "None", "None")

\* _create_api_error_fallback, lines 428-452
ApiErrorFallback(msg, error_type) ==
    MakeDecision("no_action", "API error (" \o error_type \o ")",
                 [EmptyPayload EXCEPT !.error_type = error_type], "low", "None", "None")

\* the except clauses of process_with_thinking, lines 344-362, in their order
OnExceptionNoCatchAll(msg, exc) ==
    IF IsInstance(exc, "TimeoutError") THEN Returned(TimeoutFallback(msg))
    ELSE IF IsInstance(exc, "APIConnectionError")
    THEN Returned(ApiErrorFallback(msg, "connection_error"))
    ELSE IF IsInstance(exc, "RateLimitError") THEN Returned(ApiErrorFallback(msg, "rate_limit"))
    ELSE IF IsInstance(exc, "APIStatusError") THEN Returned(ApiErrorFallback(msg, "api_error"))
    ELSE Raised(exc)
OnException(msg, exc) ==
    IF IsInstance(exc, "TimeoutError") THEN Returned(TimeoutFallback(msg))
    ELSE IF IsInstance(exc, "APIConnectionError")
    THEN Returned(ApiErrorFallback(msg, "connection_error"))
    ELSE IF IsInstance(exc, "RateLimitError") THEN Returned(ApiErrorFallback(msg, "rate_limit"))
    ELSE IF IsInstance(exc, "APIStatusError") THEN Returned(ApiErrorFallback(msg, "api_error"))
    ELSE Returned(ApiErrorFallback(msg, "unexpected_error"))

\* process_with_thinking: where it is, when the model call began, how the
\* model call ended, and what process_with_thinking gave its caller
NoThink ==
    [pc |-> "idle", msg |-> [type |-> "", source |-> ""], started |-> 0, at |-> 0,
     outcome |-> "", exc |-> "", response |-> NoResponse, result |-> NotCalled]

ThinkInit == think = NoThink

\* asyncio.wait_for: the timeout has elapsed
Due(t) == t - think.started >= thinking_timeout_seconds

\* lines 335-343: the model call is started under the timeout
ThinkCall(msg) ==
    /\ think.pc = "idle"
    /\ think' = [NoThink EXCEPT !.pc = "waiting", !.msg = msg, !.started = now]
    /\ UNCHANGED <<now, gateVars, lifeVars, loopVars, routerVars, busVars, metricVars,
                   lateVars, procVars, parseVars, dispVars>>

\* _call_model_with_thinking, lines 395-405: the model answers in time and
\* parse_decision is applied to the response; what parse_decision raises
\* meets the except clauses
ModelResponds(r) ==
    /\ think.pc = "waiting"
    /\ ~Due(now)
    /\ LET p == ParseDecisionOf(r)
       IN think' = [think EXCEPT !.pc = "returned", !.at = now, !.outcome = "response",
                       !.response = r,
                       !.exc = p.exc,
                       !.result = IF p.kind = "raised" THEN OnException(think.msg, p.exc)
                                  ELSE p]
    /\ UNCHANGED <<now, gateVars, lifeVars, loopVars, routerVars, busVars, metricVars,
                   lateVars, procVars, parseVars, dispVars>>

\* the model call raises in time
ModelRaises(exc) ==
    /\ think.pc = "waiting"
    /\ ~Due(now)
    /\ think' = [think EXCEPT !.pc = "returned", !.at = now, !.outcome = "exception",
                    !.exc = exc, !.result = OnException(think.msg, exc)]
    /\ UNCHANGED <<now, gateVars, lifeVars, loopVars, routerVars, busVars, metricVars,
                   lateVars, procVars, parseVars, dispVars>>

\* lines 344-350: the model call has not completed when the timeout
\* elapses; wait_for cancels it and raises TimeoutError
ThinkTimeout ==
    /\ think.pc = "waiting"
    /\ Due(now)
    /\ think' = [think EXCEPT !.pc = "returned", !.at = now, !.outcome = "timeout",
                    !.exc = "TimeoutError",
                    !.result = OnException(think.msg, "TimeoutError")]
    /\ UNCHANGED <<now, gateVars, lifeVars, loopVars, routerVars, busVars, metricVars,
                   lateVars, procVars, parseVars, dispVars>>

ThinkNext ==
    \/ Tick
    \/ \E msg \in ThinkMessages : ThinkCall(msg)
    \/ \E r \in ThinkResponses : ModelResponds(r)
    \/ \E exc \in ModelExceptions : ModelRaises(exc)
    \/ ThinkTimeout

\* settings.channel_to_fullsend, channel_builder_tasks, channel_from_orchestrator
channel_to_fullsend == "fullsend:to_fullsend"
channel_builder_tasks == "fullsend:builder_tasks"
channel_from_orchestrator == "fullsend:from_orchestrator"

\* the ids of the keys experiments:{id} a Decision can name; "None" and ""
\* are what an experiment_id that is None or empty would format to
ExperimentKeys == {"e1", "e2", "None", ""}

\* experiments:e1 is a submitted experiment, experiments:e2 does not exist
SubmittedHash == [state |-> "active", hypothesis |-> "h"]

DispInit ==
    /\ expHashes = [k \in ExperimentKeys |-> IF k = "e1" THEN SubmittedHash ELSE <<>>]
    /\ outbox = {}
    /\ files = [worklist |-> "w0", learnings |-> 0]
    /\ execLog = <<>>

OrchInit == ParseInit /\ ThinkInit /\ DispInit

\* the Decisions execute_decision is given: those parse_decision returns for
\* the replies with a valid action, and the two fallbacks
DispatchResponses ==
    {r \in ObjectResponses :
        /\ r.data.action.kind = "str"
        /\ r.data.action.s \in VALID_ACTIONS
        /\ r.data.priority = Absent
        /\ r.data.reasoning = "stagnant"
        /\ r.data.action.s # "kill_experiment" =>
               r.data.experiment_id = "absent" /\ r.data.payload.reason = "absent"
                                              /\ r.data.payload.experiment_id = "absent"
        /\ r.data.action.s # "initiate_roundtable" => r.data.payload.prompt = "absent"
        /\ r.data.action.s \notin {"kill_experiment", "initiate_roundtable"} =>
               r.data.payload.kind = "absent"}

DispatchDecisions ==
    {ParseDecisionOf(r).decision : r \in DispatchResponses}
        \cup {TimeoutFallback(m) : m \in ThinkMessages}
        \cup {ApiErrorFallback(m, "rate_limit") : m \in ThinkMessages}

\* original_msg: with a channel_id or without
OriginalMessages == {[channel_id |-> c] : c \in {"None", "c1"}}

\* how the one call a branch makes on the broker, the store, the file
\* system or the subprocess ends
IoOutcomes == {"ok", "fail"}

\* what a branch leaves behind: the store, the published messages, the
\* files, the exception it raised ("" for none) and what it returned
Effect(store, out, fl, raised, ret) ==
    [store |-> store, outbox |-> out, files |-> fl, raised |-> raised, ret |-> ret]

NoEffect(raised, ret) == Effect(expHashes, outbox, files, raised, ret)

\* await self.redis.publish(channel, json.dumps(payload))
Publish(channel, type, io) ==
    IF io = "fail" THEN NoEffect("ConnectionError", "None")
    ELSE Effect(expHashes, outbox \cup {[channel |-> channel, type |-> type]}, files,
                "", "None")

\* dispatch_to_fullsend, lines 48-81
DispatchToFullsend(decision, io) == Publish(channel_to_fullsend, "experiment_request", io)

\* dispatch_to_builder, lines 83-135
DispatchToBuilder(decision, io) == Publish(channel_builder_tasks, "tool_prd", io)

\* respond_to_discord, lines 137-185: no channel_id, no publish
RespondToDiscord(decision, original_msg, io) ==
    IF original_msg.channel_id = "None" THEN NoEffect("", "None")
    ELSE Publish(channel_from_orchestrator, "orchestrator_response", io)

\* if not decision.experiment_id
NoExperimentIdNever(decision) == FALSE
NoExperimentId(decision) == decision.experiment_id \in {"None", ""}

\* decision.payload.get("reason", decision.reasoning)
ReasonOf(decision) ==
    IF decision.payload.reason # "absent" THEN decision.payload.reason
    ELSE decision.reasoning

\* redis.hset(key, mapping=...) with the four archive fields
Archived(h, reason, t) ==
    HSet(HSet(HSet(HSet(h, "state", "archived"), "archived_at", ToString(t)),
              "archived_reason", reason),
         "archived_by", "orchestrator")

\* kill_experiment, lines 187-223
KillExperimentOf(decision, io) ==
    IF NoExperimentId(decision) THEN NoEffect("", "None")
    ELSE IF io = "fail" THEN NoEffect("ConnectionError", "None")
    ELSE Effect([expHashes EXCEPT ![decision.experiment_id] =
                     Archived(@, ReasonOf(decision), now)],
                outbox, files, "", "None")

\* initiate_roundtable, lines 225-307: without a prompt no subprocess is
\* run; a subprocess that fails or times out gives an error result
InitiateRoundtable(decision, io) ==
    IF decision.payload.prompt = "absent" THEN NoEffect("", "error")
    ELSE IF io = "fail" THEN NoEffect("", "error")
    ELSE NoEffect("", "result")

\* do_update_worklist, lines 355-378: update_worklist writes the file
DoUpdateWorklist(decision, io) ==
    IF io = "fail" THEN NoEffect("OSError", "None")
    ELSE Effect(expHashes, outbox, [files EXCEPT !.worklist = "w1"], "", "None")

\* do_record_learning, lines 380-403: append_learning appends to the file
DoRecordLearning(decision, io) ==
    IF io = "fail" THEN NoEffect("OSError", "None")
    ELSE Effect(expHashes, outbox, [files EXCEPT !.learnings = @ + 1], "", "None")

\* execute_decision, lines 432-473: the branch of the action
BranchOf(decision, original_msg, io) ==
    CASE decision.action = "dispatch_to_fullsend" -> DispatchToFullsend(decision, io)
      [] decision.action = "dispatch_to_builder" -> DispatchToBuilder(decision, io)
      [] decision.action = "respond_to_discord" -> RespondToDiscord(decision, original_msg, io)
      [] decision.action = "update_worklist" -> DoUpdateWorklist(decision, io)
      [] decision.action = "record_learning" -> DoRecordLearning(decision, io)
      [] decision.action = "kill_experiment" -> KillExperimentOf(decision, io)
      [] decision.action = "initiate_roundtable" -> InitiateRoundtable(decision, io)
      [] OTHER -> NoEffect("", "None")

\* execute_decision is called and runs to its end: what its branch raises
\* reaches the caller
ExecuteDecision(decision, original_msg, io) ==
    /\ decision.action = "record_learning" => files.learnings < MaxLearnings
    /\ decision.action # "respond_to_discord" => original_msg.channel_id = "c1"
    /\ LET e == BranchOf(decision, original_msg, io)
       IN /\ expHashes' = e.store
          /\ outbox' = e.outbox
          /\ files' = e.files
          /\ execLog' = <<[decision |-> decision, io |-> io, raised |-> e.raised,
                           ret |-> e.ret]>>
    /\ UNCHANGED <<now, gateVars, lifeVars, loopVars, routerVars, busVars, metricVars,
                   lateVars, procVars, parseVars, think>>

DispatchNext ==
    \E decision \in DispatchDecisions, original_msg \in OriginalMessages, io \in IoOutcomes :
        ExecuteDecision(decision, original_msg, io)

(***************************************************************************)
(* send_alert with a broker whose publish can fail: redis_agent/alerts.py  *)
(***************************************************************************)
FaultInit == lost = {}

\* redis.publish raises: send_alert has no try around it, so the exception
\* leaves send_alert; the entry of recent_alerts written at line 57 stays.
\* lost keeps, per alert key, the latest alert whose publish failed
PublishFails(env) ==
    /\ inflight[env] > 0
    /\ inflight' = [inflight EXCEPT ![env] = @ - 1]
    /\ lost' = {e \in lost : ~(e.id = env.id /\ e.type = env.type) \/ e.timestamp > env.timestamp} \cup
                   (IF \E e \in lost : e.id = env.id /\ e.type = env.type /\ e.timestamp > env.timestamp
                       THEN {} ELSE {env})
    /\ UNCHANGED <<now, recent_alerts, published, lastCall, lifeVars, loopVars, routerVars,
                   busVars, metricVars, procVars, orchVars, classified, roundtable,
                   builder, builderQueue, builderOut, emitted>>

FaultyGateNext ==
    \/ Tick
    \/ \E alert_type \in CallerTypes : SendAlert("e1", alert_type)
    \/ \E env \in Envelopes : PublishDone(env)
    \/ \E env \in Envelopes : PublishFails(env)

(***************************************************************************)
(* The Classifier: services/watcher/classifier.py                          *)
(***************************************************************************)
\* the Literal types of the Classification model, lines 22-28
CLASSIFY_ACTIONS == {"ignore", "answer", "escalate"}
CLASSIFY_PRIORITIES == {"low", "medium", "high", "urgent"}

\* the text the model returns: a JSON object alone, inside a fenced block or
\* inside prose, text that is not JSON, the empty string of line 117, or
\* JSON without braces that is not an object (a list, a string)
ClassifyTexts == {"object", "fenced_object", "embedded_object", "badjson", "empty", "array"}

\* the values of a key of the object: a string, a value that is not a
\* string (null, a number), or no such key
ClassifyObjects ==
    [action : {Absent, NonString} \cup {JsonString(s) : s \in CLASSIFY_ACTIONS \cup {"bogus"}},
     priority : {Absent, NonString} \cup {JsonString(s) : s \in CLASSIFY_PRIORITIES \cup {"bogus"}},
     reason : {Absent, NonString, JsonString("spam")}]

NoObject == [action |-> Absent, priority |-> Absent, reason |-> Absent]

ClassifyResponses ==
    {[text |-> t, data |-> d] : t \in {"object", "fenced_object", "embedded_object"},
                                d \in ClassifyObjects}
       \cup {[text |-> t, data |-> NoObject] : t \in {"badjson", "empty", "array"}}

MakeClassification(action, reason, priority) ==
    [kind |-> "returned", action |-> action, reason |-> reason, priority |-> priority,
     exc |-> ""]
ClassifyRaised(exc) ==
    [kind |-> "raised", action |-> "", reason |-> "", priority |-> "", exc |-> exc]
NoClassification ==
    [kind |-> "none", action |-> "", reason |-> "", priority |-> "", exc |-> ""]

\* lines 49-62: the text json.loads is given
ExtractJson(text) ==
    IF text \in {"fenced_object", "embedded_object"} THEN "object" ELSE text

\* parse_classification, lines 39-92
ParseClassificationOf(r) ==
    LET text == ExtractJson(r.text)
        d == r.data
        action == IF d.action = Absent THEN "escalate"
                  ELSE IF d.action.kind = "str" /\ d.action.s \in CLASSIFY_ACTIONS
                       THEN d.action.s ELSE "escalate"
        priority == IF d.priority = Absent THEN "medium"
                    ELSE IF d.priority.kind = "str" /\ d.priority.s \in CLASSIFY_PRIORITIES
                         THEN d.priority.s ELSE "medium"
    IN  CASE text \in {"badjson", "empty"} ->
               \* json.JSONDecodeError, caught at line 85
               MakeClassification("escalate",
                   "Classification parsing failed - escalating for safety", "medium")
          [] text = "array" ->
               \* data.get on a value that is not a dict
               ClassifyRaised("AttributeError")
          [] d.reason = NonString ->
               \* Classification(reason=...) rejects a value that is not a str
               ClassifyRaised("ValidationError")
          [] OTHER ->
               MakeClassification(action,
                   IF d.reason = Absent THEN "No reason provided" ELSE d.reason.s, priority)

IdleClassifier ==
    [pc |-> "idle", call |-> "none", response |-> [text |-> "empty", data |-> NoObject],
     result |-> NoClassification]

ClassInit == classified = IdleClassifier

otherLateVars == <<lost, roundtable, builder, builderQueue, builderOut, emitted>>

\* classify, lines 120-152: the prompt is built and retry_model_call awaited
Classify ==
    /\ classified.pc = "idle"
    /\ classified' = [classified EXCEPT !.pc = "calling"]
    /\ UNCHANGED <<now, gateVars, lifeVars, loopVars, routerVars, busVars, metricVars,
                   procVars, orchVars, otherLateVars>>

\* retry_model_call raises ModelCallError ("If all retry attempts fail",
\* lines 129-130); classify has no try around the await of lines 144-153
ModelCallFails ==
    /\ classified.pc = "calling"
    /\ classified' = [classified EXCEPT !.pc = "done", !.call = "failed",
                                        !.result = ClassifyRaised("ModelCallError")]
    /\ UNCHANGED <<now, gateVars, lifeVars, loopVars, routerVars, busVars, metricVars,
                   procVars, orchVars, otherLateVars>>

\* lines 154-163: the model answered and its text is parsed
ModelAnswers(r) ==
    /\ classified.pc = "calling"
    /\ classified' = [classified EXCEPT !.pc = "done", !.call = "answered", !.response = r,
                                        !.result = ParseClassificationOf(r)]
    /\ UNCHANGED <<now, gateVars, lifeVars, loopVars, routerVars, busVars, metricVars,
                   procVars, orchVars, otherLateVars>>

ClassifyNext ==
    \/ Classify
    \/ ModelCallFails
    \/ \E r \in ClassifyResponses : ModelAnswers(r)


(***************************************************************************)
(* The Roundtable supervisor: Dispatcher.initiate_roundtable and           *)
(* Dispatcher._run_roundtable_subprocess                                   *)
(***************************************************************************)
EmptyList == [kind |-> "list", s |-> "[]"]
SomeList == [kind |-> "list", s |-> "[turns]"]

\* the record initiate_roundtable builds on the paths that failed
FailureRecord(error) ==
    [error |-> JsonString(error), summary |-> JsonString(""), transcript |-> EmptyList]

\* the JSON objects the subprocess can print: each key is absent, a string
\* (a list for transcript) or a value of another type (null, a number)
RoundtableObjects ==
    [error : {Absent, JsonString("")},
     summary : {Absent, NonString, JsonString("go")},
     transcript : {Absent, NonString, SomeList}]

NoRecord == [error |-> Absent, summary |-> Absent, transcript |-> Absent]

\* how subprocess.run ended: it could not start the command, the deadline
\* passed, the exit status was not 0 (with or without text on stderr), or
\* the exit status was 0 with this text on stdout
SubprocessOutcomes ==
    {[kind |-> k, stderr |-> "", stdout |-> "", data |-> NoRecord] : k \in {"spawn_failed", "timeout"}}
      \cup {[kind |-> "nonzero", stderr |-> e, stdout |-> "", data |-> NoRecord] :
               e \in {"", "Traceback"}}
      \cup {[kind |-> "zero", stderr |-> "", stdout |-> t, data |-> NoRecord] :
               t \in {"empty", "badjson", "array"}}
      \cup {[kind |-> "zero", stderr |-> "", stdout |-> "object", data |-> d] :
               d \in RoundtableObjects}

NoOutcome == [kind |-> "none", stderr |-> "", stdout |-> "", data |-> NoRecord]

RoundtableReturned(rec) == [kind |-> "returned", rec |-> rec, exc |-> ""]
RoundtableRaised(exc) == [kind |-> "raised", rec |-> NoRecord, exc |-> exc]
NoRoundtableResult == [kind |-> "none", rec |-> NoRecord, exc |-> ""]

\* decision.payload.get("prompt", decision.payload.get("topic", "")), line 236
PromptOf(payload) ==
    IF payload.prompt # "absent" THEN payload.prompt
    ELSE IF payload.topic # "absent" THEN payload.topic ELSE ""

RoundtablePayloads == [prompt : {"absent", "", "p"}, topic : {"absent", "t"}]

\* _run_roundtable_subprocess, lines 309-353: the dict it returns or the
\* exception it raises
RunRoundtableSubprocess(o) ==
    CASE o.kind = "spawn_failed" -> RoundtableRaised("FileNotFoundError")
      [] o.kind = "timeout" -> RoundtableRaised("TimeoutError")
      [] o.kind = "nonzero" ->
           RoundtableReturned([error |-> JsonString(o.stderr), summary |-> JsonString(""),
                               transcript |-> EmptyList])
      [] o.stdout \in {"empty", "badjson"} ->
           RoundtableReturned(FailureRecord("Invalid JSON output"))
      [] o.stdout = "array" -> [kind |-> "returned_array", rec |-> NoRecord, exc |-> ""]
      [] OTHER -> RoundtableReturned(o.data)

\* the try block of initiate_roundtable, lines 260-307, given what the
\* thread gave: result.get and len(...) of lines 270-281 run inside the try
SuperviseRoundtable(o) ==
    LET r == RunRoundtableSubprocess(o)
    IN  CASE r.kind = "raised" /\ r.exc = "TimeoutError" ->
               RoundtableReturned(FailureRecord("Roundtable timed out"))
          [] r.kind = "raised" -> RoundtableReturned(FailureRecord(r.exc))
          [] r.kind = "returned_array" ->
               RoundtableReturned(FailureRecord("'list' object has no attribute 'get'"))
          [] r.rec.summary = NonString \/ r.rec.transcript = NonString ->
               RoundtableReturned(FailureRecord("object of type 'NoneType' has no len()"))
          [] OTHER -> r

IdleRoundtable ==
    [pc |-> "idle", payload |-> [prompt |-> "absent", topic |-> "absent"],
     outcome |-> NoOutcome, result |-> NoRoundtableResult]

RtInit == roundtable = IdleRoundtable

nonRtVars ==
    <<now, gateVars, lifeVars, loopVars, routerVars, busVars, metricVars, procVars, orchVars,
      lost, classified, builder, builderQueue, builderOut, emitted>>

\* lines 236-258: without a prompt the record is returned at once,
\* otherwise the subprocess is started in a thread
RoundtableCalled(payload) ==
    /\ roundtable.pc = "idle"
    /\ roundtable' =
         IF PromptOf(payload) = ""
         THEN [roundtable EXCEPT !.pc = "done", !.payload = payload,
                                 !.result = RoundtableReturned(FailureRecord("No prompt provided"))]
         ELSE [roundtable EXCEPT !.pc = "running", !.payload = payload]
    /\ UNCHANGED nonRtVars

\* subprocess.run ends, or the deadline of wait_for passes
SubprocessEnds(o) ==
    /\ roundtable.pc = "running"
    /\ roundtable' = [roundtable EXCEPT !.pc = "exited", !.outcome = o]
    /\ UNCHANGED nonRtVars

\* lines 260-307: initiate_roundtable returns
RoundtableReturns ==
    /\ roundtable.pc = "exited"
    /\ roundtable' = [roundtable EXCEPT !.pc = "done",
                                        !.result = SuperviseRoundtable(roundtable.outcome)]
    /\ UNCHANGED nonRtVars

RoundtableNext ==
    \/ \E payload \in RoundtablePayloads : RoundtableCalled(payload)
    \/ \E o \in SubprocessOutcomes : SubprocessEnds(o)
    \/ RoundtableReturns
(***************************************************************************)
(* The Builder listener: services/builder/listener.py                      *)
(***************************************************************************)
CHANNEL_BUILDER_RESULTS == "fullsend:builder_results"

\* CHANNEL_TO_ORCHESTRATOR, and settings.orchestrator_channel of the Redis Agent
channel_to_orchestrator == "fullsend:to_orchestrator"

\* the value of the prd key of a request: a dict, or a value that is not a
\* mapping (the Dispatcher forwards decision.payload as it is)
PrdValues == {"dict", "str"}

\* how run.sh ended: exit status 0, another exit status, the deadline, or
\* an exception of the subprocess call
BuildOutcomes == {"zero", "nonzero", "timeout", "exception"}

\* result["success"] of run_builder, lines 75-107
BuildSucceededAlways(outcome) == TRUE
BuildSucceeded(outcome) == outcome = "zero"

IdleBuilder == [pc |-> "idle", request_id |-> 0, prd |-> "dict", success |-> FALSE]

BuilderInit ==
    /\ builder = IdleBuilder
    /\ builderQueue = <<>>
    /\ builderOut = <<>>

nonBuilderVars ==
    <<now, gateVars, lifeVars, loopVars, routerVars, busVars, metricVars, procVars, orchVars,
      lost, classified, roundtable, emitted>>

\* what the listener did, in order: a message it published or a build
Published(channel, type, request_id) ==
    [kind |-> "publish", channel |-> channel, type |-> type, request_id |-> request_id]
BuildEnded(outcome, request_id) ==
    [kind |-> "build", channel |-> "", type |-> outcome, request_id |-> request_id]

\* the number of requests received so far
Received == builder.request_id + Len(builderQueue)

\* a tool_prd message arrives on builder_tasks and waits in the pubsub
\* connection; requests are numbered in the order of receipt
RequestArrives(prd) ==
    /\ Received < MaxRequests
    /\ builderQueue' = Append(builderQueue, [request_id |-> Received + 1, prd |-> prd])
    /\ UNCHANGED <<builder, builderOut, nonBuilderVars>>

\* main, lines 237-241, and process_request, lines 146-174: the next
\* message is taken and builder_started is published
ProcessRequest ==
    /\ builder.pc = "idle"
    /\ builderQueue # <<>>
    /\ builder' = [pc |-> "write", request_id |-> Head(builderQueue).request_id,
                   prd |-> Head(builderQueue).prd, success |-> FALSE]
    /\ builderQueue' = Tail(builderQueue)
    /\ builderOut' = Append(builderOut,
          Published(channel_to_orchestrator, "builder_started", Head(builderQueue).request_id))
    /\ UNCHANGED nonBuilderVars

\* write_prd, lines 46-72: {**prd, "_meta": ...} raises TypeError for a prd
\* that is not a mapping, which main logs at lines 244-245
WritePrd ==
    /\ builder.pc = "write"
    /\ builder' = [builder EXCEPT !.pc = IF builder.prd = "dict" THEN "build" ELSE "idle"]
    /\ UNCHANGED <<builderQueue, builderOut, nonBuilderVars>>

\* run_builder, lines 75-107: run.sh ends, the deadline passes or the call
\* raises; every case gives a result dict
RunBuilder(outcome) ==
    /\ builder.pc = "build"
    /\ builder' = [builder EXCEPT !.pc = "results", !.success = BuildSucceeded(outcome)]
    /\ builderOut' = Append(builderOut, BuildEnded(outcome, builder.request_id))
    /\ UNCHANGED <<builderQueue, nonBuilderVars>>

\* lines 183-188 and 197-202: the message on builder_results
PublishBuilderResult ==
    /\ builder.pc = "results"
    /\ builder' = [builder EXCEPT !.pc = "notify"]
    /\ builderOut' = Append(builderOut,
          Published(CHANNEL_BUILDER_RESULTS,
                    IF builder.success THEN "tool_built" ELSE "tool_build_failed",
                    builder.request_id))
    /\ UNCHANGED <<builderQueue, nonBuilderVars>>

\* lines 189-196 and 203-209: the message on to_orchestrator, after which
\* process_request returns to the loop of main
NotifyOrchestrator ==
    /\ builder.pc = "notify"
    /\ builder' = [builder EXCEPT !.pc = "idle"]
    /\ builderOut' = Append(builderOut,
          Published(channel_to_orchestrator,
                    IF builder.success THEN "builder_completed" ELSE "builder_failed",
                    builder.request_id))
    /\ UNCHANGED <<builderQueue, nonBuilderVars>>

BuilderNext ==
    \/ \E prd \in PrdValues : RequestArrives(prd)
    \/ ProcessRequest
    \/ WritePrd
    \/ \E outcome \in BuildOutcomes : RunBuilder(outcome)
    \/ PublishBuilderResult
    \/ NotifyOrchestrator
(***************************************************************************)
(* The envelopes of the core services, as the keys of the dict each        *)
(* publisher hands to json.dumps                                           *)
(***************************************************************************)
EmitInit == emitted = {}

\* settings.channel_experiment_results of the Executor
channel_experiment_results == "fullsend:experiment_results"

\* redis.publish(channel, json.dumps(message))
Emit(channel, type, keys) ==
    emitted \cup {[channel |-> channel, type |-> type, keys |-> keys]}

nonEmitVars ==
    <<now, gateVars, lifeVars, loopVars, routerVars, busVars, metricVars, procVars, orchVars,
      lost, classified, roundtable, builder, builderQueue, builderOut>>

\* Dispatcher.dispatch_to_fullsend, dispatcher.py lines 59-70
EmitExperimentRequest ==
    /\ emitted' = Emit(channel_to_fullsend, "experiment_request",
         {"type", "idea", "context", "priority", "requested_at", "orchestrator_reasoning"})
    /\ UNCHANGED nonEmitVars

\* Dispatcher.dispatch_to_builder, dispatcher.py lines 106-125
EmitToolPrd ==
    \E notify \in SUBSET {"notify_channel", "notify_message"} :
        /\ emitted' = Emit(channel_builder_tasks, "tool_prd",
             {"type", "prd", "requested_by", "priority", "requested_at",
              "orchestrator_reasoning"} \cup notify)
        /\ UNCHANGED nonEmitVars

\* Dispatcher.respond_to_discord, dispatcher.py lines 170-180
EmitOrchestratorResponse ==
    /\ emitted' = Emit(channel_from_orchestrator, "orchestrator_response",
         {"type", "channel_id", "content", "reply_to", "priority"})
    /\ UNCHANGED nonEmitVars

\* send_alert, alerts.py lines 59-65: the caller's alert plus the two stamps
EmitAlert ==
    \E alert_type \in CallerTypes :
        /\ emitted' = Emit(channel_to_orchestrator, alert_type,
             {"type", "experiment_id", "message", "timestamp", "source"})
        /\ UNCHANGED nonEmitVars

\* periodic_summaries, analyzer.py lines 149-159
EmitPeriodicSummary ==
    /\ emitted' = Emit(channel_to_orchestrator, "periodic_summary",
         {"type", "source", "timestamp", "summary", "experiment_count"})
    /\ UNCHANGED nonEmitVars

\* execute_experiment, runner.py lines 161-172
EmitExperimentCompleted ==
    /\ emitted' = Emit(channel_experiment_results, "experiment_completed",
         {"type", "experiment_id", "run_id", "status", "duration"})
    /\ UNCHANGED nonEmitVars

\* _handle_failure, runner.py lines 264-277
EmitExperimentFailed ==
    \E timeout \in SUBSET {"timeout_seconds"} :
        /\ emitted' = Emit(channel_experiment_results, "experiment_failed",
             {"type", "experiment_id", "run_id", "error", "error_type"} \cup timeout)
        /\ UNCHANGED nonEmitVars

\* publish_result of the Builder listener, listener.py lines 129-142
EmitBuilderMessage ==
    \E msg_type \in {"builder_started", "builder_completed", "builder_failed"} :
        /\ emitted' = Emit(channel_to_orchestrator, msg_type,
             {"type", "source", "timestamp", "request_id", "tool_name", "notify_channel"})
        /\ UNCHANGED nonEmitVars

EnvelopeNext ==
    \/ EmitExperimentRequest
    \/ EmitToolPrd
    \/ EmitOrchestratorResponse
    \/ EmitAlert
    \/ EmitPeriodicSummary
    \/ EmitExperimentCompleted
    \/ EmitExperimentFailed
    \/ EmitBuilderMessage

LateInit == FaultInit /\ ClassInit /\ RtInit /\ BuilderInit /\ EmitInit

RestInit == ProcInit /\ OrchInit /\ LateInit

MetricInit == AggInit /\ CritInit /\ ChkInit

Init ==
    /\ GateInit /\ LifeInit /\ LoopInit /\ RouterInit /\ BusInit /\ MetricInit
    /\ RestInit

\* a service on its own: the experiments stay as submitted
QuietStoreInit ==
    /\ Init
    /\ expState = [e \in Experiments |-> "active"]
    /\ expStatus = [e \in Experiments |-> "active"]

SpecGate == QuietStoreInit /\ [][GateNext]_vars

SpecProcess == QuietStoreInit /\ [][ProcessNext]_vars

SpecFaultyGate == QuietStoreInit /\ [][FaultyGateNext]_vars

SpecClassify == QuietStoreInit /\ [][ClassifyNext]_vars

SpecRoundtable == QuietStoreInit /\ [][RoundtableNext]_vars

SpecBuilder == QuietStoreInit /\ [][BuilderNext]_vars

SpecEnvelope == QuietStoreInit /\ [][EnvelopeNext]_vars

SpecRouter == QuietStoreInit /\ [][RouterNext]_vars

SpecLifecycle == Init /\ [][LifeNext]_vars

SpecExecutor == Init /\ [][ExecutorNext]_vars

\* the Monitor next to a store in which the lifecycle has gone some way: each
\* experiment is as submitted, or has a first run, begun at StartTime, that
\* is still in the tool, completed or failed
FirstRun(exp_id) ==
    [pc |-> "started", exp |-> exp_id, run_id |-> RunId(exp_id, StartTime),
     archivedAtStart |-> FALSE]

MonitorInit ==
    /\ GateInit
    /\ LoopInit
    /\ RouterInit
    /\ BusInit
    /\ MetricInit
    /\ RestInit
    /\ expStatus \in [Experiments -> {"none", "active"}]
    /\ expState \in [Experiments -> LifecycleStates \ {"archived"}]
    /\ run = [r \in Runs |->
                IF r = 1 /\ \E e \in Experiments : expState[e] = "running"
                THEN FirstRun(CHOOSE e \in Experiments : expState[e] = "running")
                ELSE NoRun]
    /\ runRecords = [id \in RunIds |->
                IF \E e \in Experiments : id = RunId(e, StartTime) /\ expState[e] = "run"
                THEN "completed"
                ELSE IF \E e \in Experiments : id = RunId(e, StartTime) /\ expState[e] = "failed"
                THEN "failed"
                ELSE "none"]

SpecMonitor == MonitorInit /\ [][MonitorNext]_vars

SpecRouterBus == QuietStoreInit /\ [][RouterBusNext]_vars

SpecBus == QuietStoreInit /\ [][BusNext]_vars

SpecOutage == QuietStoreInit /\ [][OutageNext]_vars

\* the broker cannot be reached when the service starts, and stays so
DegradedInit ==
    /\ GateInit /\ LifeInit /\ LoopInit /\ RouterInit /\ MetricInit /\ RestInit
    /\ BusIdle
    /\ brokerUp = FALSE
    /\ expState = [e \in Experiments |-> "active"]
    /\ expStatus = [e \in Experiments |-> "active"]

SpecDegraded == DegradedInit /\ [][DegradedNext]_vars

SpecAgg == QuietStoreInit /\ [][AggNext]_vars

\* evaluate_criterion on every criterion and snapshot of the bounded sets
CriterionInit ==
    /\ GateInit
    /\ LifeInit
    /\ expState = [e \in Experiments |-> "active"]
    /\ expStatus = [e \in Experiments |-> "active"]
    /\ LoopInit
    /\ RouterInit
    /\ BusInit
    /\ AggInit
    /\ ChkInit
    /\ RestInit
    /\ criterion \in Criteria
    /\ critMetrics \in CriterionMetrics
    /\ critResult = "unset"

SpecCriterion == CriterionInit /\ [][CriterionNext]_vars

SpecCheck == QuietStoreInit /\ [][CheckNext]_vars

\* parse_decision on every response of the bounded set
ParseDrawInit ==
    /\ GateInit /\ LifeInit /\ LoopInit /\ RouterInit /\ BusInit /\ MetricInit
    /\ ProcInit /\ ThinkInit /\ DispInit /\ LateInit
    /\ response \in Responses
    /\ parsed = NotCalled

SpecParse == ParseDrawInit /\ [][ParseNext]_vars

SpecThink == QuietStoreInit /\ [][ThinkNext]_vars

SpecDispatch == QuietStoreInit /\ [][DispatchNext]_vars

(***************************************************************************)
(* Alert Gate properties                                                   *)
(***************************************************************************)
SameAlert(e, f) == e.id = f.id /\ e.type = f.type

\* the alert passed the cooldown check: it is on the channel or on its way
Stamped(e) == inflight[e] > 0 \/ published[e] > 0

Apart(e, f) ==
    \/ e.timestamp - f.timestamp >= alert_cooldown_seconds
    \/ f.timestamp - e.timestamp >= alert_cooldown_seconds

\* the alerts of lastCall's (experiment_id, alert_type) that were stamped less
\* than one cooldown before that call
RecentFor(c) ==
    {e \in Envelopes : /\ SameAlert(e, c)
                       /\ e.timestamp <= c.at
                       /\ c.at - e.timestamp < alert_cooldown_seconds}

\* C1: for every (experiment_id, alert_type), no envelope is published twice
\* and any two published alerts of that key are stamped at least
\* alert_cooldown_seconds apart; a send_alert call made less than
\* alert_cooldown_seconds after a published alert of its key is suppressed.
C1_CooldownWindow ==
    /\ \A e \in Envelopes : published[e] <= 1
    /\ \A e, f \in {x \in Envelopes : published[x] > 0} :
          (SameAlert(e, f) /\ e # f) => Apart(e, f)
    /\ \A e \in RecentFor(lastCall) :
          (published[e] > 0 /\ e.timestamp < lastCall.at)
             => lastCall.result = "suppressed"

\* C1 witness: a call was suppressed at a later instant inside the window of a
\* published alert of its key.
C1_Witness ==
    /\ lastCall.result = "suppressed"
    /\ \E e \in RecentFor(lastCall) : published[e] > 0 /\ e.timestamp < lastCall.at

LatestStamp(exp_id, alert_type) ==
    LET S == {e \in Envelopes : Stamped(e) /\ e.id = exp_id /\ e.type = alert_type}
    IN IF S = {} THEN 0
       ELSE (CHOOSE e \in S : \A f \in S : f.timestamp <= e.timestamp).timestamp

\* C8: the cooldown entry of a key is the stamp of the last alert of the key
\* that passed the check (suppressed attempts do not move it), and a call is
\* suppressed only if an alert of its key passed less than
\* alert_cooldown_seconds before it: once the window is over the next call
\* passes.
C8_CooldownExpires ==
    /\ \A exp_id \in ExpIds, alert_type \in AlertTypes :
          LastSent(recent_alerts, AlertKey(exp_id, alert_type))
             = LatestStamp(exp_id, alert_type)
    /\ lastCall.result = "suppressed"
          => \E e \in RecentFor(lastCall) : Stamped(e)

\* C8 witness: a call passed the check a full cooldown or more after a
\* published alert of its key.
C8_Witness ==
    /\ lastCall.result = "passed"
    /\ \E e \in Envelopes :
          /\ published[e] > 0 /\ SameAlert(e, lastCall)
          /\ lastCall.at - e.timestamp >= alert_cooldown_seconds

(***************************************************************************)
(* Experiment lifecycle properties                                         *)
(***************************************************************************)
\* C3: once experiments:{id}.state is "archived", no later step changes it.
C3_ArchivedIsTerminal ==
    [][\A e \in Experiments : expState[e] = "archived" => expState'[e] = "archived"]_vars

\* C4: an execute_experiment invocation that found the experiment archived
\* does not get to the point where the tool has run or the run record is
\* written.
C4_NoRunForArchived ==
    \A r \in Runs :
        run[r].archivedAtStart
           => /\ run[r].pc \notin {"completed", "failed", "notify", "notify_failure"}
              /\ runRecords[run[r].run_id] = "none"

\* the transitions of the lifecycle diagram (a blank state counts as active)
LifecycleDiagram ==
    {<<"active", "running">>, <<"", "running">>,
     <<"running", "run">>, <<"running", "failed">>}
       \cup {<<st, "archived">> : st \in LifecycleStates}

\* C5: every change of experiments:{id}.state is a transition of the lifecycle
\* diagram, and when no execute_experiment invocation is in progress the
\* state is not "running".
C5_LifecycleFollowsDiagram ==
    [][/\ \A e \in Experiments :
             expState'[e] # expState[e]
                => <<expState[e], expState'[e]>> \in LifecycleDiagram
       /\ (\A r \in Runs : run'[r].pc = "idle")
             => \A e \in Experiments : expState'[e] # "running"]_vars

\* C6: every experiment that get_active_experiments returned, and the one
\* check_experiment_thresholds is raising alerts for, had state "active",
\* "running" or blank when its hash was read.
C6_OnlyActiveMonitored ==
    /\ \A exp \in experiments : exp.state \in {"active", "running", ""}
    /\ loopPc \in {"success", "failure", "await_success", "await_failure"}
          => checking.exp.state \in {"active", "running", ""}

(***************************************************************************)
(* Router properties                                                       *)
(***************************************************************************)
\* C9: for every message, no handler is invoked twice, and once the dispatch
\* of the message is over every handler that was registered with a started
\* router when the message was published has been invoked exactly once.
C9_FanOutExactlyOnce ==
    \A m \in Msgs :
        /\ \A h \in Handlers : invoked[m][h] <= 1
        /\ m \in doneMsgs => \A h \in expected[m] : invoked[m][h] = 1

\* C9 witness: after repeated start or register_handler calls, a message
\* published with both handlers registered has been dispatched to each once.
C9_Witness ==
    /\ redundantCalls
    /\ \E m \in Msgs :
          /\ m \in doneMsgs
          /\ expected[m] = Handlers
          /\ \A h \in Handlers : invoked[m][h] = 1

\* C10: when a handler raised on a message, every other handler registered at
\* its publish is still invoked for it, and the listener goes on: every later
\* message that is dispatched reaches every handler registered at its publish.
C10_RaisingHandlerIsolated ==
    /\ (\E m \in Msgs : raisedOn[m] # {}) => listenerRunning
    /\ \A m \in doneMsgs :
          (\E m0 \in 1..m : raisedOn[m0] # {})
             => \A h \in expected[m] : invoked[m][h] >= 1

\* C10 witness: one handler raised on the first message, the other handler
\* was invoked for it, and the second message reached both handlers.
C10_Witness ==
    /\ doneMsgs = {1, 2}
    /\ expected[1] = Handlers /\ expected[2] = Handlers
    /\ \E h \in Handlers : raisedOn[1] = {h}
    /\ \A m \in {1, 2}, h \in Handlers : invoked[m][h] = 1

C12_RaisingCallbackIsolated ==
    /\ \A m \in dispatched :
          raisedIn[m] # {} => regAt[m] \subseteq begun[m]
    /\ ((\E m \in BusMsgs : raisedIn[m] # {}) /\ busRunning)
          => busListener.pc \in {"get", "run"}

\* C12 witness: the first callback raised on the first message, the second
\* callback was called for it, and the second message was dispatched to
\* both callbacks.
C12_Witness ==
    /\ dispatched = {1, 2}
    /\ busRunning
    /\ regAt[1] = Handlers /\ regAt[2] = Handlers
    /\ raisedIn[1] # {} /\ raisedIn[1] # Handlers
    /\ ended[1] = Handlers /\ ended[2] = Handlers

\* C13: disconnect lets the handlers in flight run to completion: no
\* callback is cut short by a cancellation, and once disconnect has returned
\* the bus is not connected, the callback table is empty and the listener
\* calls no callback.
C13_DisconnectWaitsForHandlers ==
    /\ \A m \in BusMsgs : cancelledIn[m] = {}
    /\ disconnectPc = "closed" =>
          /\ ~BusIsConnected
          /\ \A ch \in BusChannels : ~busCallbacks[ch].present
          /\ busListener.pc \in {"none", "done"}

\* C14: the bus reports connected only when every channel it has subscribed
\* is subscribed at the broker: after a dropped connection it does not
\* report connected before it has resubscribed.
C14_ResubscribedBeforeConnected ==
    BusIsConnected => pubsubChannels \subseteq brokerSubs

\* C15: on a bus that never connected no operation of the Bus or of the
\* Router raises, nothing is published and no channel is subscribed.
C15_DegradedReturnsQuietly ==
    ~busRedis =>
       /\ lastBusOp.op \in {"publish", "subscribe", "unsubscribe", "Router.publish",
                            "Router.publish_raw", "Router.start", "Router.stop"}
             => lastBusOp.raised = "none"
       /\ busSent = 0
       /\ pubsubChannels = {}
       /\ \A ch \in BusChannels : ~busCallbacks[ch].present

(***************************************************************************)
(* Aggregation properties                                                  *)
(***************************************************************************)
\* the ingested metrics in which field name carries a JSON number
NumericAt(name) ==
    {i \in 1..Len(history) :
        /\ name \in DOMAIN history[i].fields
        /\ history[i].fields[name].type \in {"int", "float"}}

RECURSIVE SumOver(_, _)
SumOver(name, idx) ==
    IF idx = {} THEN 0
    ELSE LET i == CHOOSE j \in idx : TRUE
         IN history[i].fields[name].n + SumOver(name, idx \ {i})

LastOf(idx) == CHOOSE i \in idx : \A j \in idx : j <= i

\* C16: when no update is in progress, for every field name outside the
\* skipped names that carried n >= 1 numbers v1..vn, name_sum is their sum,
\* name_count is n and name_latest is vn; a skipped name and a name that
\* never carried a number have no _sum and no _latest entry, and no _count
\* entry unless the name is also the event of an ingested metric.
C16_AggregationCorrect ==
    ingest.pc = "idle" =>
       \A name \in MetricFieldNames :
          LET idx == NumericAt(name)
          IN IF name \notin SkippedNames /\ idx # {}
             THEN /\ {SumKey(name), CountKey(name), LatestKey(name)} \subseteq DOMAIN agg
                  /\ agg[SumKey(name)] = Num(SumOver(name, idx))
                  /\ agg[CountKey(name)] = Num(Cardinality(idx))
                  /\ agg[LatestKey(name)] = Num(history[LastOf(idx)].fields[name].n)
             ELSE /\ SumKey(name) \notin DOMAIN agg
                  /\ LatestKey(name) \notin DOMAIN agg
                  /\ CountKey(name) \in DOMAIN agg
                        => \E i \in 1..Len(history) : history[i].event = name

\* the ingested metrics whose event is e
EventAt(e) == {i \in 1..Len(history) : history[i].event = e}

\* C17: a snapshot read with no update in progress contains, for every
\* event name e of an ingested metric, e_count equal to the number of
\* ingested metrics whose event is e.
C17_EventCounts ==
    (snapshot.taken /\ snapshot.quiet) =>
       \A e \in EventNames :
          EventAt(e) # {} =>
             /\ ~snapshot.raised
             /\ CountKey(e) \in DOMAIN snapshot.metrics
             /\ snapshot.metrics[CountKey(e)] = Num(Cardinality(EventAt(e)))

\* C18: a snapshot read with no update in progress is the empty record when
\* the experiment has no aggregates, and for every field name outside the
\* skipped names that carried n >= 1 numbers v1..vn it has name_avg equal to
\* (v1+...+vn)/n and name_latest equal to vn.
C18_ReadSurface ==
    (snapshot.taken /\ snapshot.quiet) =>
       /\ history = <<>> => (~snapshot.raised /\ snapshot.metrics = <<>>)
       /\ \A name \in MetricFieldNames \ SkippedNames :
             LET idx == NumericAt(name)
                 avg == name \o "_avg"
             IN idx # {} =>
                   /\ ~snapshot.raised
                   /\ {avg, LatestKey(name)} \subseteq DOMAIN snapshot.metrics
                   /\ snapshot.metrics[avg].kind = "num"
                   /\ snapshot.metrics[avg].num * Cardinality(idx)
                         = SumOver(name, idx) * snapshot.metrics[avg].den
                   /\ snapshot.metrics[LatestKey(name)]
                         = Num(history[LastOf(idx)].fields[name].n)

(***************************************************************************)
(* Criterion properties                                                    *)
(***************************************************************************)
\* C19: evaluate_criterion returns true exactly when the criterion is a
\* string of three tokens 'name OP threshold' with OP one of the six
\* comparison operators and a numeric threshold, and the comparison holds
\* for the value under the first present key among name, name_latest,
\* name_avg; in every other case, a missing metric and a malformed criterion
\* included, it returns false.
C19_EvaluateCriterion ==
    critResult # "unset" =>
       LET c == criterion
           m == critMetrics
           wellFormed == /\ c.str
                         /\ Len(c.tokens) = 3
                         /\ c.tokens[2] \in {">", "<", ">=", "<=", "==", "!="}
                         /\ c.tokens[3] \in {"1", "2"}
           holds ==
              LET name == c.tokens[1]
                  op == c.tokens[2]
                  t == IF c.tokens[3] = "1" THEN 1 ELSE 2
                  key == IF name \in DOMAIN m THEN name
                         ELSE IF (name \o "_latest") \in DOMAIN m THEN name \o "_latest"
                         ELSE name \o "_avg"
              IN /\ key \in DOMAIN m
                 /\ m[key].kind = "num"
                 /\ \/ op = ">" /\ m[key].num > t * m[key].den
                    \/ op = "<" /\ m[key].num < t * m[key].den
                    \/ op = ">=" /\ ~(m[key].num < t * m[key].den)
                    \/ op = "<=" /\ ~(m[key].num > t * m[key].den)
                    \/ op = "==" /\ m[key].num = t * m[key].den
                    \/ op = "!=" /\ m[key].num # t * m[key].den
       IN (critResult = "true") <=> (wellFormed /\ holds)

\* C19 witness: the criterion 'x > 1' was found true through x_latest = 2 in
\* a snapshot without x whose x_avg is 1.
C19_Witness ==
    /\ critResult = "true"
    /\ criterion = Criterion(<<"x", ">", "1">>)
    /\ DOMAIN critMetrics = {"x_latest", "x_avg"}
    /\ critMetrics["x_latest"] = Num(2)
    /\ critMetrics["x_avg"] = Num(1)

(***************************************************************************)
(* Threshold check properties                                              *)
(***************************************************************************)
\* the alerts of the type that are on the orchestrator channel
PublishedOf(alert_type) == {e \in Envelopes : e.type = alert_type /\ published[e] > 0}

\* at least one criterion of the kind is true of the metrics
AnyTrue(kind) ==
    \E i \in 1..Len(CriteriaOf(kind)) : EvaluateCriterion(CriteriaOf(kind)[i], current_metrics)

\* C20: when a call of check_experiment_thresholds that began with no
\* cooldown entry has returned, the orchestrator channel holds exactly one
\* success_threshold alert if a success criterion is true and none
\* otherwise, exactly one failure_threshold alert, of severity high, if a
\* failure criterion is true and none otherwise, and nothing else.
C20_OneAlertPerKind ==
    chk.pc = "returned" =>
       /\ \A kind \in {"success", "failure"} :
             LET alerts == PublishedOf(AlertTypeOf(kind))
             IN /\ AnyTrue(kind) =>
                      /\ Cardinality(alerts) = 1
                      /\ \A e \in alerts : published[e] = 1 /\ e.id = chkExp.id
                /\ ~AnyTrue(kind) => alerts = {}
       /\ Severity(AlertTypeOf("failure")) = "high"
       /\ PublishedOf("error") = {}

(***************************************************************************)
(* process_metric properties                                               *)
(***************************************************************************)
\* the envelope has no experiment_id: the field is missing or empty
HasNoId(metric) == metric.experiment_id \in {"", "None"}

LastLogged(log) == log[Len(log)]

\* C21: a process_metric call on an envelope without experiment_id (missing
\* or empty), whatever its event, ends at once and changes nothing: no
\* metrics:{id} list, no field of metrics_aggregated, no cooldown entry, no
\* alert on its way or on a channel; and no call ever goes on with such an
\* envelope
C21_NoIdDropped ==
    [][/\ (proc'.pc # "idle" => ~HasNoId(proc'.metric))
       /\ (procLog' # procLog /\ HasNoId(LastLogged(procLog').metric)) =>
              /\ LastLogged(procLog').result = "dropped"
              /\ UNCHANGED <<rawLists, agg, gateVars, wire, proc>>]_vars

\* an error envelope without experiment_id was dropped after another
\* envelope had been stored
C21_Witness ==
    /\ \E i \in 1..Len(procLog) :
           /\ procLog[i].result = "dropped"
           /\ procLog[i].metric.event = "error"
           /\ HasNoId(procLog[i].metric)
    /\ rawLists["e1"] # <<>>
    /\ rawLists[""] = <<>> /\ rawLists["None"] = <<>>

\* the process_metric calls on an error event of an experiment
ErrorCalls ==
    {i \in 1..Len(procLog) : procLog[i].metric.event = "error" /\ ~HasNoId(procLog[i].metric)}

\* the alert the claim expects for a logged error metric
ExpectedAlert(entry) ==
    [type |-> "error", experiment_id |-> entry.metric.experiment_id,
     message |-> IF entry.metric.message = "none" THEN "Unknown error"
                 ELSE entry.metric.message,
     severity |-> "high", timestamp |-> entry.at, source |-> "redis_agent"]

EarlierErrors(i) ==
    {j \in ErrorCalls : j < i /\ procLog[j].metric.experiment_id = procLog[i].metric.experiment_id}

\* C22: every ingested error metric goes to the Alert Gate as an alert of
\* type 'error', severity 'high', with the metric's message: the first one
\* of an experiment passes and exactly one alert is published for it, one
\* that follows a passed one inside the cooldown publishes nothing, and
\* both are stored in metrics:{id} and counted in error_count
C22_ErrorMetricAlerts ==
    /\ \A i \in ErrorCalls :
        /\ procLog[i].result \in {"passed", "suppressed"}
        /\ EarlierErrors(i) = {} => procLog[i].result = "passed"
        /\ (\E j \in EarlierErrors(i) :
               /\ procLog[j].result = "passed"
               /\ procLog[i].at - procLog[j].at < alert_cooldown_seconds)
             => procLog[i].result = "suppressed"
        /\ procLog[i].result = "passed" =>
             LET a == ExpectedAlert(procLog[i])
             IN \/ /\ proc.pc = "publish" /\ proc.alert = a
                   /\ inflight[EnvelopeOf(a)] = 1 /\ published[EnvelopeOf(a)] = 0
                \/ /\ [channel |-> orchestrator_channel, alert |-> a] \in wire
                   /\ inflight[EnvelopeOf(a)] = 0 /\ published[EnvelopeOf(a)] = 1
    /\ \A w \in wire : \E i \in ErrorCalls :
           procLog[i].result = "passed" /\ w.alert = ExpectedAlert(procLog[i])
    /\ \A e \in Envelopes : published[e] > 0 => \E w \in wire : EnvelopeOf(w.alert) = e
    /\ proc.pc = "idle" =>
        /\ Len(rawLists["e1"]) = Cardinality({i \in 1..Len(procLog) : ~HasNoId(procLog[i].metric)})
        /\ ErrorCalls # {} =>
             /\ CountKey("error") \in DOMAIN agg
             /\ agg[CountKey("error")].num = Cardinality(ErrorCalls)

\* two error metrics of the experiment inside one cooldown: the first was
\* published, the second was suppressed, both are stored and counted
C22_Witness ==
    /\ proc.pc = "idle"
    /\ Len(procLog) = 2
    /\ ErrorCalls = {1, 2}
    /\ procLog[1].result = "passed"
    /\ procLog[2].result = "suppressed"
    /\ procLog[1].metric.message = "boom"
    /\ Cardinality(wire) = 1
    /\ Len(rawLists["e1"]) = 2
    /\ agg[CountKey("error")].num = 2

\* C23: every alert send_alert has published carries source = 'redis_agent'
\* and the time of the send as its timestamp, and is on the configured
\* orchestrator channel, never on another one
C23_PublishedAlertStamped ==
    \A w \in wire :
        /\ w.channel = "fullsend:to_orchestrator"
        /\ w.alert.source = "redis_agent"
        /\ w.alert.timestamp \in StartTime..now
        /\ published[EnvelopeOf(w.alert)] > 0

\* two alerts of the experiment were published, one cooldown apart
C23_Witness ==
    /\ Cardinality(wire) = 2
    /\ \E v, w \in wire : w.alert.timestamp - v.alert.timestamp >= alert_cooldown_seconds

(***************************************************************************)
(* Orchestrator properties                                                 *)
(***************************************************************************)
\* the execute_decision call of the step
ThisCall == execLog'[1]

ArchiveFields == {"state", "archived_by", "archived_at", "archived_reason"}

\* C24: executing a kill_experiment Decision with experiment_id = id, when
\* the store write succeeds, sets state = 'archived', archived_by =
\* 'orchestrator', archived_at and archived_reason = the Decision's
\* reasoning on experiments:{id} and leaves the other fields of the hash
\* and the other keys as they were
C24_KillArchives ==
    [][(/\ ThisCall.decision.action = "kill_experiment"
        /\ ThisCall.decision.experiment_id \in {"e1", "e2"}
        /\ ThisCall.io = "ok") =>
           LET id == ThisCall.decision.experiment_id
               h == expHashes'[id]
           IN /\ ThisCall.raised = ""
              /\ DOMAIN h = DOMAIN expHashes[id] \cup ArchiveFields
              /\ h["state"] = "archived"
              /\ h["archived_by"] = "orchestrator"
              /\ h["archived_at"] = ToString(now)
              /\ h["archived_reason"] = ThisCall.decision.reasoning
              /\ \A f \in DOMAIN expHashes[id] \ ArchiveFields : h[f] = expHashes[id][f]
              /\ \A k \in ExperimentKeys \ {id} : expHashes'[k] = expHashes[k]
              /\ UNCHANGED <<outbox, files>>]_vars

\* C25: a kill_experiment Decision without an experiment_id (None or empty)
\* is a no-op: no experiments:* key is created or modified, nothing is
\* published, no file is written, and the call returns
C25_KillWithoutIdNoOp ==
    [][(/\ ThisCall.decision.action = "kill_experiment"
        /\ ThisCall.decision.experiment_id \in {"None", ""}) =>
           /\ ThisCall.raised = ""
           /\ UNCHANGED <<expHashes, outbox, files>>]_vars

\* after an experiment was archived and a message published, a
\* kill_experiment Decision without experiment_id was executed
C25_Witness ==
    /\ execLog # <<>>
    /\ execLog[1].decision.action = "kill_experiment"
    /\ execLog[1].decision.experiment_id \in {"None", ""}
    /\ execLog[1].raised = ""
    /\ "state" \in DOMAIN expHashes["e2"] /\ expHashes["e2"]["state"] = "archived"
    /\ expHashes["None"] = <<>> /\ expHashes[""] = <<>>
    /\ outbox # {}

\* C26: execute_decision never raises into its caller, whatever the
\* Decision and whatever fails inside its branch
C26_ExecuteNeverRaises ==
    execLog # <<>> => execLog[1].raised = ""

\* the Decision is the timeout fallback the claim describes
IsStillThinking(r) ==
    /\ r.kind = "returned"
    /\ r.decision.action = "respond_to_discord"
    /\ r.decision.priority = "medium"
    /\ r.decision.payload.content \notin {"absent", ""}

\* C27: when the model call has not completed thinking_timeout_seconds
\* after its start, the only thing process_with_thinking does is return,
\* without raising, the fallback Decision respond_to_discord / medium with
\* a non-empty payload content; and every return on a timeout is that one
C27_TimeoutFallback ==
    [][/\ (/\ think.pc = "waiting"
           /\ now - think.started >= thinking_timeout_seconds
           /\ think' # think) =>
              /\ think'.pc = "returned"
              /\ think'.outcome = "timeout"
       /\ (think'.pc = "returned" /\ think'.outcome = "timeout") =>
              IsStillThinking(think'.result)]_vars

\* the call returned the fallback after the timeout had elapsed
C27_Witness ==
    /\ think.pc = "returned"
    /\ think.outcome = "timeout"
    /\ think.at - think.started >= thinking_timeout_seconds
    /\ IsStillThinking(think.result)

\* C28: parse_decision returns, for every model response, a Decision whose
\* action is one of the eight valid actions and whose priority is one of
\* low, medium, high, urgent
C28_ParseClosure ==
    parsed.kind # "none" =>
        /\ parsed.kind = "returned"
        /\ parsed.decision.action \in VALID_ACTIONS
        /\ parsed.decision.priority \in VALID_PRIORITIES

\* the string is not a valid name, however it is spelled
Unknown(value, names) == value.kind = "str" /\ StripLower(value.s) \notin names

\* C29: a reply whose action is not a valid action is parsed to no_action,
\* and a reply whose priority is not a valid priority is parsed to low
C29_StrictDefaults ==
    (parsed.kind = "returned" /\ response.text = "object") =>
        /\ Unknown(response.data.action, VALID_ACTIONS) => parsed.decision.action = "no_action"
        /\ Unknown(response.data.priority, VALID_PRIORITIES) => parsed.decision.priority = "low"

\* the model call gave a response parse_decision cannot turn into the
\* Decision the model stated
ParseFailure(r) ==
    \/ r.text # "object"
    \/ r.data.action.kind = "other"
    \/ r.data.priority.kind = "other"

\* the Decision says what went wrong
CarriesErrorContext(decision) ==
    \/ decision.payload.error_type # "absent"
    \/ decision.payload.kind = "raw_response"
    \/ decision.reasoning \in {"No text content in model response", "JSON parse error",
                               "Validation error"}

\* C30: process_with_thinking never raises; a model call that ends in a
\* parse failure, a connection, rate-limit or status error or any other
\* exception gives a no_action Decision that carries the error context,
\* and only the timeout gives respond_to_discord
C30_ThinkingTotal ==
    think.pc = "returned" =>
        /\ think.result.kind = "returned"
        /\ think.outcome = "timeout" => think.result.decision.action = "respond_to_discord"
        /\ (\/ think.outcome = "exception"
            \/ think.outcome = "response" /\ ParseFailure(think.response)) =>
               /\ think.result.decision.action = "no_action"
               /\ CarriesErrorContext(think.result.decision)
        /\ think.outcome = "exception" =>
               think.result.decision.payload.error_type =
                   CASE think.exc \in {"APIConnectionError", "APITimeoutError"} -> "connection_error"
                     [] think.exc = "RateLimitError" -> "rate_limit"
                     [] think.exc = "APIStatusError" -> "api_error"
                     [] OTHER -> "unexpected_error"

\* a reply whose action is not a string made parse_decision raise inside
\* the model call, and the caller got the no_action fallback
C30_Witness ==
    /\ think.pc = "returned"
    /\ think.outcome = "response"
    /\ think.response.data.action.kind = "other"
    /\ think.exc = "AttributeError"
    /\ think.result.kind = "returned"
    /\ think.result.decision.payload.error_type = "unexpected_error"

(***************************************************************************)
(* Run record properties                                                   *)
(***************************************************************************)
TerminalStatuses == {"completed", "failed"}

\* C32: once experiment_runs:{run_id} has status completed or failed, no
\* later step of the same or of another execute_experiment call rewrites
\* it, also when the state write or the notification after the save fails
C32_RunRecordImmutable ==
    [][\A id \in RunIds :
          runRecords[id] \in TerminalStatuses => runRecords'[id] = runRecords[id]]_vars

\* C33: two execute_experiment invocations of one experiment that are in
\* progress, whatever their start times, have distinct run_ids
C33_RunIdUnique ==
    \A r1, r2 \in Runs :
        (/\ r1 # r2
         /\ run[r1].pc # "idle" /\ run[r2].pc # "idle"
         /\ run[r1].exp = run[r2].exp)
           => run[r1].run_id # run[r2].run_id

(***************************************************************************)
(* Alert Gate with a failing broker                                        *)
(***************************************************************************)
\* C39: when the publish inside send_alert raised, the cooldown entry of
\* the alert's key stays as written before the publish, and no further
\* send_alert for that key passes the cooldown check until
\* alert_cooldown_seconds have elapsed since the failed one
C39_FailedPublishKeepsCooldown ==
    [][\A env \in lost :
          /\ LastSent(recent_alerts, AlertKey(env.id, env.type)) >= env.timestamp
          /\ \A e \in Envelopes :
                (inflight'[e] > inflight[e] /\ SameAlert(e, env))
                   => e.timestamp - env.timestamp >= alert_cooldown_seconds]_vars

\* the publish of an alert failed, nothing was delivered for its key, and a
\* later send_alert for the key inside the cooldown was suppressed
C39_Witness ==
    \E env \in lost :
        /\ \A e \in Envelopes : SameAlert(e, env) => published[e] = 0 /\ inflight[e] = 0
        /\ lastCall.id = env.id /\ lastCall.type = env.type
        /\ lastCall.at > env.timestamp
        /\ lastCall.at - env.timestamp < alert_cooldown_seconds
        /\ lastCall.result = "suppressed"

(***************************************************************************)
(* Classifier                                                              *)
(***************************************************************************)
\* the model call failed, or its text is not a JSON object
ClassifyFailure ==
    \/ classified.call = "failed"
    \/ ExtractJson(classified.response.text) # "object"

\* C31: classify always returns a Classification whose action and priority
\* are of the allowed values, and the Classification is escalate / medium
\* when the model call failed or its output did not parse
C31_ClassifierFailSafe ==
    classified.pc = "done" =>
        /\ classified.result.kind = "returned"
        /\ classified.result.action \in CLASSIFY_ACTIONS
        /\ classified.result.priority \in CLASSIFY_PRIORITIES
        /\ ClassifyFailure =>
              classified.result.action = "escalate" /\ classified.result.priority = "medium"

(***************************************************************************)
(* Envelopes                                                               *)
(***************************************************************************)
\* C34: every envelope a core service published has both a timestamp key
\* and a source key
C34_EnvelopesStamped ==
    \A e \in emitted : {"timestamp", "source"} \subseteq e.keys

(***************************************************************************)
(* Roundtable supervisor                                                   *)
(***************************************************************************)
\* the subprocess exited with status 0 and printed a JSON object
RoundtableSucceeded ==
    /\ roundtable.outcome.kind = "zero"
    /\ roundtable.outcome.stdout = "object"

\* C35: initiate_roundtable always returns a record; when the subprocess
\* printed a JSON object and exited with 0 it is that object, and otherwise
\* it has a non-empty error, summary '' and transcript []
C35_RoundtableNeverThrows ==
    roundtable.pc = "done" =>
        /\ roundtable.result.kind = "returned"
        /\ IF RoundtableSucceeded
           THEN roundtable.result.rec = roundtable.outcome.data
           ELSE /\ roundtable.result.rec.error.kind = "str"
                /\ roundtable.result.rec.error.s # ""
                /\ roundtable.result.rec.summary = JsonString("")
                /\ roundtable.result.rec.transcript = EmptyList

(***************************************************************************)
(* Reader interleaved with an aggregate update                             *)
(***************************************************************************)
\* C36: a get_current_metrics call made while update_aggregations is between
\* two of its steps returns a snapshot, does not raise, and computes an
\* average only from a count that is in the hash and positive
C36_ReaderTolerates ==
    (snapshot.taken /\ ~snapshot.quiet) =>
        /\ ~snapshot.raised
        /\ \A b \in KeyBases :
              (b \o "_avg") \in DOMAIN snapshot.metrics =>
                  /\ CountKey(b) \in DOMAIN agg
                  /\ agg[CountKey(b)].num > 0

(***************************************************************************)
(* Builder listener                                                        *)
(***************************************************************************)
\* what the listener did for request r, in order
EventsOf(r) == SelectSeq(builderOut, LAMBDA e : e.request_id = r)

\* the four events of a request whose build ended with this outcome
ExpectedEvents(r, outcome) ==
    <<Published("fullsend:to_orchestrator", "builder_started", r),
      BuildEnded(outcome, r),
      Published("fullsend:builder_results",
                IF outcome = "zero" THEN "tool_built" ELSE "tool_build_failed", r),
      Published("fullsend:to_orchestrator",
                IF outcome = "zero" THEN "builder_completed" ELSE "builder_failed", r)>>

IsPrefixOf(s, t) == Len(s) <= Len(t) /\ \A i \in 1..Len(s) : s[i] = t[i]

\* the listener is done with request r
HandledRequest(r) ==
    \/ builder.request_id > r
    \/ builder.request_id = r /\ builder.pc = "idle"

\* C37: for every request builder_started comes before the build, the build
\* is followed by tool_built then builder_completed when it succeeded and by
\* tool_build_failed then builder_failed when it failed or timed out, never
\* by both pairs; a request whose build ended has its whole pair once the
\* listener is done with it; and the requests are handled one at a time in
\* the order of receipt
C37_BuilderOutcomePair ==
    /\ \A r \in 1..MaxRequests :
          /\ \E outcome \in BuildOutcomes : IsPrefixOf(EventsOf(r), ExpectedEvents(r, outcome))
          /\ (HandledRequest(r) /\ Len(EventsOf(r)) > 1) => Len(EventsOf(r)) = 4
    /\ \A i, j \in 1..Len(builderOut) :
          i < j => builderOut[i].request_id <= builderOut[j].request_id

\* two requests were handled, one whose build succeeded and one whose build
\* timed out
C37_Witness ==
    /\ builder.pc = "idle"
    /\ EventsOf(1) = ExpectedEvents(1, "zero")
    /\ EventsOf(2) = ExpectedEvents(2, "timeout")

(***************************************************************************)
(* The value a criterion is compared with                                  *)
(***************************************************************************)
\* C38: a snapshot read with no update in progress has, for every field
\* name outside the skipped names that carried n >= 1 numbers v1..vn, the
\* key name itself holding v1+...+vn, and the lookup of evaluate_criterion
\* for that name takes this value and not name_latest or name_avg
C38_CriterionSeesSum ==
    (snapshot.taken /\ snapshot.quiet) =>
       \A name \in MetricFieldNames \ SkippedNames :
          LET idx == NumericAt(name)
          IN idx # {} =>
                /\ ~snapshot.raised
                /\ name \in DOMAIN snapshot.metrics
                /\ snapshot.metrics[name] = Num(SumOver(name, idx))
                /\ Lookup(name, snapshot.metrics)
                      = [found |-> TRUE, value |-> Num(SumOver(name, idx))]

(***************************************************************************)
(* Router and Bus lifecycle                                                *)
(***************************************************************************)
\* C40: whenever the Router's _subscribed flag is set, its _on_message
\* callback is in the Bus's list for the from-orchestrator channel
C40_SubscribedMeansRegistered ==
    subscribed => (callbacks.present /\ InList(callbacks.list, "router"))

====
